---- MODULE Spec2Model ----
(***************************************************************************)
(* Model of src/bot.py: the aiogram form-session engine (RegForm,          *)
(* RequestForm, AdminLogin, EditField), the role stored in users.role and  *)
(* the role-gated request operations over the users, projects and requests *)
(* tables.                                                                 *)
(*                                                                         *)
(* A text is a sequence of one-character strings.  A keyboard-button label *)
(* and the em dash are single glyph tokens of the alphabet: the            *)
(* code only ever compares a label as a whole, and a glyph is not          *)
(* whitespace.  The FSM storage is MemoryStorage keyed by (chat, user); in *)
(* a private chat both are the user's id, so state and data are per user.  *)
(***************************************************************************)
EXTENDS Integers, Sequences, FiniteSets, TLC

VARIABLES
    users,      \* table users: tg_id -> row [role, first_name, last_name, contact]
    projects,   \* table projects: id -> row [manager_id, title, status]
    requests,   \* table requests: id -> row [project_id, payload, status]
    nextId,     \* number of ids handed out so far by the projects table
    state,      \* MemoryStorage: user -> current FSM state name
    data,       \* MemoryStorage: user -> FSM data (dict key -> value)
    lastEvent,  \* the event handled last: who sent it, which handler ran, what it answered
    proc,       \* the bot process: its environment and how far its start has come
    inflight    \* user -> the locals of a handler that is between two storage statements

vars == <<users, projects, requests, nextId, state, data, lastEvent, proc, inflight>>

(* ------------------------------ bounds -------------------------------- *)
MaxRequests == 1          \* ids the projects / requests tables may hand out

Users  == {"u1", "u2"}    \* telegram identities
ReqIds == 1..MaxRequests

(* ------------------------------- texts -------------------------------- *)
WS == {" ", "\n", "\t"}   \* whitespace removed by str.strip()

RECURSIVE LStrip(_)
LStrip(s) == IF s # <<>> /\ Head(s) \in WS THEN LStrip(Tail(s)) ELSE s

RECURSIVE RStrip(_)
RStrip(s) == IF s # <<>> /\ s[Len(s)] \in WS THEN RStrip(SubSeq(s, 1, Len(s) - 1)) ELSE s

\* str.strip()
Strip(s) == LStrip(RStrip(s))

RECURSIVE UntilWS(_)
UntilWS(s) == IF s = <<>> \/ Head(s) \in WS THEN <<>> ELSE <<Head(s)>> \o UntilWS(Tail(s))

\* text.split()[0] of the Command filter; <<>> when the text has no word
FirstWord(s) == UntilWS(LStrip(s))

BTN_REG         == <<"[BTN_REG]">>
BTN_ADMIN_LOGIN == <<"[BTN_ADMIN_LOGIN]">>
BTN_NEW         == <<"[BTN_NEW]">>
BTN_MY          == <<"[BTN_MY]">>
BTN_RESET       == <<"[BTN_RESET]">>
BTN_LOGOUT      == <<"[BTN_LOGOUT]">>
BTN_PANEL       == <<"[BTN_PANEL]">>
BTN_USERS       == <<"[BTN_USERS]">>
BTN_REQS        == <<"[BTN_REQS]">>
BTN_BACK        == <<"[BTN_BACK]">>
BTN_EXIT        == <<"[BTN_EXIT]">>

TXT_reset  == <<"/", "r", "e", "s", "e", "t">>
TXT_cancel == <<"/", "c", "a", "n", "c", "e", "l">>
TXT_back   == <<"/", "b", "a", "c", "k">>

\* texts matched by the lambda of cmd_exit_form ("выйти", "отмена" are
\* further members of the same set and behave as TXT_cancel does)
ExitTexts == {BTN_EXIT, TXT_reset, TXT_cancel}
\* texts matched by the lambda of go_back ("назад" likewise)
BackTexts == {BTN_BACK, TXT_back}

CMD_start       == <<"/", "s", "t", "a", "r", "t">>
CMD_register    == <<"/", "r", "e", "g", "i", "s", "t", "e", "r">>
CMD_new_request == <<"/", "n", "e", "w", "_", "r", "e", "q", "u", "e", "s", "t">>
CMD_admin_login == <<"/", "a", "d", "m", "i", "n", "_", "l", "o", "g", "i", "n">>
CMD_logout      == <<"/", "l", "o", "g", "o", "u", "t">>
CMD_admin_panel    == <<"/", "a", "d", "m", "i", "n", "_", "p", "a", "n", "e", "l">>
CMD_admin_users    == <<"/", "a", "d", "m", "i", "n", "_", "u", "s", "e", "r", "s">>
CMD_admin_requests == <<"/", "a", "d", "m", "i", "n", "_", "r", "e", "q", "u", "e", "s", "t", "s">>
CMD_export_request == <<"/", "e", "x", "p", "o", "r", "t", "_", "r", "e", "q", "u", "e", "s", "t">>
CMD_export_all     == <<"/", "e", "x", "p", "o", "r", "t", "_", "a", "l", "l">>

RECURSIVE Words(_)
\* str.split(): the words between runs of whitespace
Words(s) ==
    LET t == LStrip(s)
        w == UntilWS(t)
    IN  IF t = <<>> THEN <<>> ELSE <<w>> \o Words(SubSeq(t, Len(w) + 1, Len(t)))

\* the Command filter: the first word of the text is the command
IsCommand(t, cmd) == FirstWord(t) = cmd

(* --------------------------- FSM state names -------------------------- *)
NoState == "None"

RegFormStates == <<"RegForm:first_name", "RegForm:last_name", "RegForm:age", "RegForm:contact">>

RequestFormStates ==
    <<"RequestForm:client_name", "RequestForm:client_company", "RequestForm:client_contact",
      "RequestForm:site_company", "RequestForm:business_type", "RequestForm:color_palette",
      "RequestForm:site_contacts", "RequestForm:short_desc", "RequestForm:work_hours",
      "RequestForm:structure", "RequestForm:images", "RequestForm:services">>

AdminLoginPassword == "AdminLogin:password"
EditFieldWaiting   == "EditField:waiting_value"

Range(f) == {f[i] : i \in DOMAIN f}

IsRegState(s)     == s \in Range(RegFormStates)
IsRequestState(s) == s \in Range(RequestFormStates)

IndexOf(seq, x) == CHOOSE i \in DOMAIN seq : seq[i] = x

\* fault: next() that jumps over a state
GroupNextSkips(group, s) ==
    LET i == IndexOf(group, s) IN IF i + 2 <= Len(group) THEN group[i + 2] ELSE NoState
\* StatesGroup.next(): the state after the current one in the group's order,
\* no state after the last one
GroupNext(group, s) ==
    LET i == IndexOf(group, s) IN IF i < Len(group) THEN group[i + 1] ELSE NoState

\* fault: a table whose entry for services names structure
PREV_STATE_slip ==
    [s \in Range(RequestFormStates) \ {"RequestForm:client_name"} |->
        IF s = "RequestForm:services" THEN "RequestForm:structure"
        ELSE RequestFormStates[IndexOf(RequestFormStates, s) - 1]]

\* PREV_STATE
PREV_STATE ==
    [s \in {"RequestForm:client_company", "RequestForm:client_contact", "RequestForm:site_company",
            "RequestForm:business_type", "RequestForm:color_palette", "RequestForm:site_contacts",
            "RequestForm:short_desc", "RequestForm:work_hours", "RequestForm:structure",
            "RequestForm:images", "RequestForm:services"} |->
        CASE s = "RequestForm:client_company" -> "RequestForm:client_name"
          [] s = "RequestForm:client_contact" -> "RequestForm:client_company"
          [] s = "RequestForm:site_company"   -> "RequestForm:client_contact"
          [] s = "RequestForm:business_type"  -> "RequestForm:site_company"
          [] s = "RequestForm:color_palette"  -> "RequestForm:business_type"
          [] s = "RequestForm:site_contacts"  -> "RequestForm:color_palette"
          [] s = "RequestForm:short_desc"     -> "RequestForm:site_contacts"
          [] s = "RequestForm:work_hours"     -> "RequestForm:short_desc"
          [] s = "RequestForm:structure"      -> "RequestForm:work_hours"
          [] s = "RequestForm:images"         -> "RequestForm:structure"
          [] s = "RequestForm:services"       -> "RequestForm:images"]

(* ------------------------------ FSM data ------------------------------ *)
NoneVal   == <<"[None]">>                 \* Python None where a text is expected
EmptyData == [k \in {} |-> NoneVal]       \* {}

(* ------------------------ process and environment --------------------- *)
\* os.getenv(name): the value of the variable, None when it is not set
getenv(name) == proc.env[name]

\* os.getenv(name, default)
getenv_default(name, default) == IF proc.env[name] = NoneVal THEN default ELSE proc.env[name]

\* `not x` of a text or None
NotSet(x) == x = NoneVal \/ x = <<>>

BOT_TOKEN       == getenv("TG_BOT_TOKEN")
N8N_GEN_WEBHOOK == Strip(getenv_default("N8N_GEN_WEBHOOK", <<>>))
ADMIN_PASSWORD  == getenv_default("ADMIN_PASSWORD", <<"c", "h", "a", "n", "g", "e", "m", "e">>)
DB_URL          == Strip(getenv_default("DB_URL", <<>>))

\* an environment that sets every variable the module reads
FullEnv ==
    [TG_BOT_TOKEN |-> <<"[token]">>, DB_URL |-> <<"[dsn]">>,
     N8N_GEN_WEBHOOK |-> <<"[url]">>, ADMIN_PASSWORD |-> <<"s", "3">>]

\* the process while executor.start_polling hands updates to the handlers
Polling(env) == [phase |-> "polling", env |-> env]

\* no handler is between two of its storage statements
Idle    == [idle |-> TRUE]
NoCalls == [u \in Users |-> Idle]

\* the handler of u's event has read a record and not yet written it back
InCall(u) == "rec" \in DOMAIN inflight[u]

\* a handler runs only in a polling process, leaves the process as it is, and
\* runs from its first statement to its last
Serving == proc.phase = "polling" /\ UNCHANGED <<proc, inflight>>

\* dict.get(key)
Get(d, k) == IF k \in DOMAIN d THEN d[k] ELSE NoneVal

\* fault: an update_data that keeps a value the buffer already has
UpdateDataKeepsFirst(d, k, v) == d @@ (k :> v)

\* FSMContext.update_data(key=value)
UpdateData(d, k, v) == (k :> v) @@ d

(* --------------------------- text splitting --------------------------- *)
DASH == "[EM DASH]"       \* the em dash glyph

RECURSIVE ReplaceChar(_, _, _)
\* str.replace(a, b) for a one-character a
ReplaceChar(s, a, b) ==
    IF s = <<>> THEN <<>>
    ELSE (IF Head(s) = a THEN b ELSE <<Head(s)>>) \o ReplaceChar(Tail(s), a, b)

IsPrefix(p, s) == Len(p) <= Len(s) /\ SubSeq(s, 1, Len(p)) = p

RECURSIVE ReplaceSub(_, _, _)
\* str.replace(pat, rep): non-overlapping occurrences, left to right
ReplaceSub(s, pat, rep) ==
    IF s = <<>> THEN <<>>
    ELSE IF IsPrefix(pat, s) THEN rep \o ReplaceSub(SubSeq(s, Len(pat) + 1, Len(s)), pat, rep)
    ELSE <<Head(s)>> \o ReplaceSub(Tail(s), pat, rep)

RECURSIVE Split(_, _)
\* str.split(sep) for a one-character sep: always at least one piece
Split(s, sep) ==
    IF s = <<>> THEN << <<>> >>
    ELSE IF Head(s) = sep THEN << <<>> >> \o Split(Tail(s), sep)
    ELSE LET rest == Split(Tail(s), sep)
         IN  << <<Head(s)>> \o Head(rest) >> \o Tail(rest)

\* str.splitlines(): the pieces between line breaks, no empty piece after a
\* final line break
SplitLines(s) ==
    LET pieces == Split(s, "\n")
    IN  IF pieces[Len(pieces)] = <<>> THEN SubSeq(pieces, 1, Len(pieces) - 1) ELSE pieces

NonEmptyStripped(pieces) ==
    LET stripped == [i \in DOMAIN pieces |-> Strip(pieces[i])]
    IN  SelectSeq(stripped, LAMBDA p : p # <<>>)

\* sep.join(parts)
RECURSIVE JoinParts(_, _)
JoinParts(parts, sep) ==
    IF parts = <<>> THEN <<>>
    ELSE IF Len(parts) = 1 THEN parts[1]
    ELSE parts[1] \o sep \o JoinParts(Tail(parts), sep)

\* fault: a structure list split on commas only
SplitStructureCommas(value) == NonEmptyStripped(Split(value, ","))

\* [s.strip() for s in value.replace(";", ",").split(",") if s.strip()]
SplitStructure(value) == NonEmptyStripped(Split(ReplaceChar(value, ";", <<",">>), ","))

\* fault: a line parser for which a bare hyphen is no separator
ServiceItemSpacedHyphen(line) ==
    LET norm  == ReplaceSub(ReplaceChar(line, "|", <<DASH>>),
                            <<" ", "-", " ">>, <<" ", DASH, " ">>)
        parts == NonEmptyStripped(Split(norm, DASH))
        keys  == {"name"} \cup (IF Len(parts) > 1 THEN {"desc"} ELSE {})
                          \cup (IF Len(parts) > 2 THEN {"price"} ELSE {})
    IN  IF parts = <<>> THEN <<>>
        ELSE << [k \in keys |-> CASE k = "name" -> parts[1]
                                  [] k = "desc" -> parts[2]
                                  [] k = "price" -> parts[3]] >>

\* one line of parse_services: the item of the line, or no item for a blank line
ServiceItem(line) ==
    LET norm  == ReplaceChar(ReplaceSub(ReplaceChar(line, "|", <<DASH>>),
                                        <<" ", "-", " ">>, <<" ", DASH, " ">>),
                             "-", <<DASH>>)
        parts == NonEmptyStripped(Split(norm, DASH))
        keys  == {"name"} \cup (IF Len(parts) > 1 THEN {"desc"} ELSE {})
                          \cup (IF Len(parts) > 2 THEN {"price"} ELSE {})
    IN  IF parts = <<>> THEN <<>>
        ELSE << [k \in keys |-> CASE k = "name" -> parts[1]
                                  [] k = "desc" -> parts[2]
                                  [] k = "price" -> parts[3]] >>

RECURSIVE ParseLines(_)
ParseLines(lines) ==
    IF lines = <<>> THEN <<>> ELSE ServiceItem(Head(lines)) \o ParseLines(Tail(lines))

\* parse_services(text); `text or ""` maps None to the empty text
parse_services(text) == ParseLines(SplitLines(IF text = NoneVal THEN <<>> ELSE text))

(* ------------------------------ DB access ----------------------------- *)
NoProfile == [first_name |-> NoneVal, last_name |-> NoneVal, contact |-> NoneVal]

\* get_user_by_tgid(tg_id) is not None
HasUser(us, u) == u \in DOMAIN us

\* get_mode
get_mode(us, u) == IF u \in DOMAIN us THEN us[u].role ELSE "guest"

\* fault: an UPDATE of the role with no INSERT for a missing row
set_mode_updates_only(us, u, mode) ==
    IF u \in DOMAIN us THEN [us EXCEPT ![u].role = mode] ELSE us

\* set_mode: INSERT ... ON CONFLICT (tg_id) DO UPDATE SET role
set_mode(us, u, mode) ==
    IF u \in DOMAIN us
    THEN [us EXCEPT ![u].role = mode]
    ELSE (u :> [role |-> mode, first_name |-> NoneVal, last_name |-> NoneVal,
                contact |-> NoneVal]) @@ us

\* create_user: INSERT with role 'manager', ON CONFLICT only the profile is updated
create_user(us, u, first_name, last_name, contact) ==
    IF u \in DOMAIN us
    THEN [us EXCEPT ![u].first_name = first_name, ![u].last_name = last_name,
                    ![u].contact = contact]
    ELSE (u :> [role |-> "manager", first_name |-> first_name, last_name |-> last_name,
                contact |-> contact]) @@ us

\* the row get_request selects: requests JOIN projects
RequestExists(prj, reqs, r) == r \in DOMAIN reqs /\ reqs[r].project_id \in DOMAIN prj

\* get_request(req_id) for an existing request
get_request(prj, reqs, r) ==
    [id             |-> r,
     manager_id     |-> prj[reqs[r].project_id].manager_id,
     client_name    |-> reqs[r].payload.client.name,
     client_company |-> reqs[r].payload.client.company,
     client_contact |-> reqs[r].payload.client.contact,
     status         |-> reqs[r].status,
     site           |-> reqs[r].payload.site]

\* fault: an UPDATE of the site payload with no WHERE
update_every_site_json(reqs, r, site) ==
    [x \in DOMAIN reqs |-> [reqs[x] EXCEPT !.payload.site = site]]

\* update_request_site_json: jsonb_set(payload_json, '{site}', site) WHERE id = req_id
update_request_site_json(reqs, r, site) ==
    IF r \in DOMAIN reqs THEN [reqs EXCEPT ![r].payload.site = site] ELSE reqs

Without(f, x) == [y \in DOMAIN f \ {x} |-> f[y]]

\* fault: a DELETE that ignores the manager scope
DeleteHitsUnscoped(prj, reqs, r, manager_id) == r \in DOMAIN reqs

\* delete_request(req_id, manager_id): the table after the DELETE; the call
\* returns whether a row went away (DeleteHits).  manager_id is NoneVal or <<id>>.
DeleteHits(prj, reqs, r, manager_id) ==
    /\ r \in DOMAIN reqs
    /\ manager_id # NoneVal =>
          /\ reqs[r].project_id \in DOMAIN prj
          /\ prj[reqs[r].project_id].manager_id = manager_id[1]

\* fault: a DELETE that matches the row and removes nothing
delete_request_keeps(prj, reqs, r, manager_id) == reqs

delete_request(prj, reqs, r, manager_id) ==
    IF DeleteHits(prj, reqs, r, manager_id) THEN Without(reqs, r) ELSE reqs

\* payload.get("site",{}).get("company") or payload.get("client",{}).get("company") or "Project"
Falsy(v) == v = NoneVal \/ v = <<>>
ProjectTitle(payload) ==
    IF ~Falsy(payload.site.company) THEN payload.site.company
    ELSE IF ~Falsy(payload.client.company) THEN payload.client.company
    ELSE <<"P", "r", "o", "j", "e", "c", "t">>

(* ------------------------------ dispatch ------------------------------ *)
CMD_my_requests == <<"/", "m", "y", "_", "r", "e", "q", "u", "e", "s", "t", "s">>

\* the handler of each RequestForm state
QHandler ==
    [s \in Range(RequestFormStates) |->
        CASE s = "RequestForm:client_name"    -> "q_client_name"
          [] s = "RequestForm:client_company" -> "q_client_company"
          [] s = "RequestForm:client_contact" -> "q_client_contact"
          [] s = "RequestForm:site_company"   -> "q_site_company"
          [] s = "RequestForm:business_type"  -> "q_business_type"
          [] s = "RequestForm:color_palette"  -> "q_color_palette"
          [] s = "RequestForm:site_contacts"  -> "q_site_contacts"
          [] s = "RequestForm:short_desc"     -> "q_short_desc"
          [] s = "RequestForm:work_hours"     -> "q_work_hours"
          [] s = "RequestForm:structure"      -> "q_structure"
          [] s = "RequestForm:images"         -> "q_images"
          [] s = "RequestForm:services"       -> "q_services"]

\* fault: a state filter that lets a handler without state= run in any state
AnyStateFilter(s) == TRUE

\* the state filter of a handler registered without state=: the user has no state
DefaultStateOnly(s) == s = NoState

\* The message handler that runs for text t of a user in FSM state s: the
\* first handler, in registration order, whose filters match.  A handler
\* registered without state= matches only when the user has no state.
Dispatch(s, t) ==
    IF t \in ExitTexts THEN "cmd_exit_form"
    ELSE IF t \in BackTexts THEN "go_back"
    ELSE IF DefaultStateOnly(s) /\ IsCommand(t, CMD_start) THEN "cmd_start"
    ELSE IF DefaultStateOnly(s) /\ (IsCommand(t, CMD_register) \/ t = BTN_REG) THEN "cmd_register"
    ELSE IF s = "RegForm:first_name" THEN "reg_first_name"
    ELSE IF s = "RegForm:last_name" THEN "reg_last_name"
    ELSE IF s = "RegForm:age" THEN "reg_age"
    ELSE IF s = "RegForm:contact" THEN "reg_contact"
    ELSE IF DefaultStateOnly(s) /\ (IsCommand(t, CMD_new_request) \/ t = BTN_NEW) THEN "cmd_new_request"
    ELSE IF IsRequestState(s) THEN QHandler[s]
    ELSE IF DefaultStateOnly(s) /\ (IsCommand(t, CMD_my_requests) \/ t = BTN_MY) THEN "cmd_my_requests"
    ELSE IF s = EditFieldWaiting THEN "on_edit_value"
    ELSE IF DefaultStateOnly(s) /\ (IsCommand(t, CMD_admin_login) \/ t = BTN_ADMIN_LOGIN)
         THEN "cmd_admin_login"
    ELSE IF s = AdminLoginPassword THEN "admin_check_pass"
    ELSE IF DefaultStateOnly(s) /\ (IsCommand(t, CMD_logout) \/ t = BTN_LOGOUT) THEN "cmd_logout"
    ELSE IF DefaultStateOnly(s) /\ (IsCommand(t, CMD_admin_panel) \/ t = BTN_PANEL)
         THEN "cmd_admin_panel"
    ELSE IF DefaultStateOnly(s) /\ (IsCommand(t, CMD_admin_users) \/ t = BTN_USERS)
         THEN "cmd_admin_users"
    ELSE IF DefaultStateOnly(s) /\ (IsCommand(t, CMD_admin_requests) \/ t = BTN_REQS)
         THEN "cmd_admin_requests"
    ELSE IF DefaultStateOnly(s) /\ IsCommand(t, CMD_export_request) THEN "cmd_export_request"
    ELSE IF DefaultStateOnly(s) /\ IsCommand(t, CMD_export_all) THEN "cmd_export_all"
    ELSE "unhandled"

\* A callback-query handler registered without state= runs only for a user
\* with no state; cb_open_request is registered with state="*".
CallbackRuns(s) == s = NoState

(* ------------------------------- events ------------------------------- *)
NoText == <<>>
NoReq  == {}      \* the event names no request; a callback on request r names {r}

Ev(u, h, t, r, reply) == [user |-> u, handler |-> h, text |-> t, req |-> r, reply |-> reply]

\* FSMContext.finish(): state and data are both reset
finish_state(st, u) == [st EXCEPT ![u] = NoState]

\* fault: a finish() that resets the state and keeps the data
finish_data_keeps(d, u) == d

finish_data(d, u) == [d EXCEPT ![u] = EmptyData]

\* fault: a State.set() that leaves the state as it is
set_state_stays(st, u, s) == st

\* State.set()
set_state(st, u, s) == [st EXCEPT ![u] = s]

\* fault: an owner test that only asks for a users row
IsOwnerAnyManager(us, rec, u) == HasUser(us, u)

\* is_owner of the edit / export handlers
IsOwner(us, rec, u) == HasUser(us, u) /\ rec.manager_id = u
IsAdmin(us, u) == get_mode(us, u) = "admin"

(* -------------------------- global exit / back ------------------------ *)
cmd_exit_form(u, t) ==
    /\ Serving
    /\ Dispatch(state[u], t) = "cmd_exit_form"
    /\ IF state[u] = NoState
       THEN /\ UNCHANGED <<users, state, data>>
            /\ lastEvent' = Ev(u, "cmd_exit_form", t, NoReq, "no_active_form")
       ELSE /\ state' = finish_state(state, u)
            /\ data' = finish_data(data, u)
            /\ users' = set_mode(users, u, "manager")
            /\ lastEvent' = Ev(u, "cmd_exit_form", t, NoReq, "form_closed_manager_mode")
    /\ UNCHANGED <<projects, requests, nextId>>

\* fault: a back that also walks the registration form
BackTargetAny(cur) ==
    IF IsRequestState(cur) /\ cur \in DOMAIN PREV_STATE THEN PREV_STATE[cur]
    ELSE IF IsRegState(cur) /\ IndexOf(RegFormStates, cur) > 1
         THEN RegFormStates[IndexOf(RegFormStates, cur) - 1]
    ELSE cur

\* the state go_back moves to, the current one when it moves nowhere
BackTarget(cur) ==
    IF IsRequestState(cur) /\ cur \in DOMAIN PREV_STATE THEN PREV_STATE[cur] ELSE cur

go_back(u, t) ==
    /\ Serving
    /\ Dispatch(state[u], t) = "go_back"
    /\ state' = set_state(state, u, BackTarget(state[u]))
    /\ lastEvent' = Ev(u, "go_back", t, NoReq,
            IF ~IsRequestState(state[u]) THEN "not_filling_form"
            ELSE IF state[u] \in DOMAIN PREV_STATE THEN "prompt"
            ELSE "nowhere_to_go_back")
    /\ UNCHANGED <<users, projects, requests, nextId, data>>

(* ------------------------- /start and register ------------------------ *)
\* fault: a /start that resets the role of an admin too
StartResetsAnyRole(us, u) == HasUser(us, u)

\* `if is_reg and mode != "admin"` of cmd_start
StartResetsRole(us, u) == HasUser(us, u) /\ get_mode(us, u) # "admin"

cmd_start(u, t) ==
    /\ Serving
    /\ Dispatch(state[u], t) = "cmd_start"
    /\ users' = IF StartResetsRole(users, u) THEN set_mode(users, u, "manager") ELSE users
    /\ lastEvent' = Ev(u, "cmd_start", t, NoReq,
            IF get_mode(users, u) = "admin" THEN "menu_admin"
            ELSE IF HasUser(users, u) THEN "menu_manager" ELSE "menu_guest")
    /\ UNCHANGED <<projects, requests, nextId, state, data>>

cmd_register(u, t) ==
    /\ Serving
    /\ Dispatch(state[u], t) = "cmd_register"
    /\ IF get_mode(users, u) = "admin"
       THEN /\ UNCHANGED <<users, state>>
            /\ lastEvent' = Ev(u, "cmd_register", t, NoReq, "admin_mode_is_on")
       ELSE IF HasUser(users, u)
       THEN /\ users' = set_mode(users, u, "manager")
            /\ UNCHANGED state
            /\ lastEvent' = Ev(u, "cmd_register", t, NoReq, "already_registered")
       ELSE /\ state' = set_state(state, u, "RegForm:first_name")
            /\ UNCHANGED users
            /\ lastEvent' = Ev(u, "cmd_register", t, NoReq, "ask_first_name")
    /\ UNCHANGED <<projects, requests, nextId, data>>

reg_first_name(u, t) ==
    /\ Serving
    /\ Dispatch(state[u], t) = "reg_first_name"
    /\ data' = [data EXCEPT ![u] = UpdateData(data[u], "first_name", Strip(t))]
    /\ state' = set_state(state, u, GroupNext(RegFormStates, state[u]))
    /\ lastEvent' = Ev(u, "reg_first_name", t, NoReq, "ask_last_name")
    /\ UNCHANGED <<users, projects, requests, nextId>>

reg_last_name(u, t) ==
    /\ Serving
    /\ Dispatch(state[u], t) = "reg_last_name"
    /\ data' = [data EXCEPT ![u] = UpdateData(data[u], "last_name", Strip(t))]
    /\ state' = set_state(state, u, GroupNext(RegFormStates, state[u]))
    /\ lastEvent' = Ev(u, "reg_last_name", t, NoReq, "ask_age")
    /\ UNCHANGED <<users, projects, requests, nextId>>

Digits == <<"0", "1", "2", "3", "4", "5", "6", "7", "8", "9">>

\* a character str.isdigit() takes for a digit and int() does not parse
SUP2 == "[SUPERSCRIPT TWO]"

\* str.isdigit() over the model's alphabet
IsDigitText(s) == s # <<>> /\ \A i \in DOMAIN s : s[i] \in Range(Digits) \cup {SUP2}

\* int(txt) raises ValueError
IntRaises(s) == \E i \in DOMAIN s : s[i] \notin Range(Digits)

RECURSIVE IntOf(_)
\* int(txt) of a digit string
IntOf(s) == IF s = <<>> THEN 0 ELSE 10 * IntOf(SubSeq(s, 1, Len(s) - 1)) + (IndexOf(Digits, s[Len(s)]) - 1)

\* fault: an age check that includes both ends
AgeAcceptedInclusive(txt) == IsDigitText(txt) /\ 0 <= IntOf(txt) /\ IntOf(txt) <= 120

\* the check of reg_age
AgeAccepted(txt) == IsDigitText(txt) /\ 0 < IntOf(txt) /\ IntOf(txt) < 120

reg_age(u, t) ==
    /\ Serving
    /\ Dispatch(state[u], t) = "reg_age"
    /\ IF IsDigitText(Strip(t)) /\ IntRaises(Strip(t))
       THEN /\ UNCHANGED <<state, data>>
            /\ lastEvent' = Ev(u, "reg_age", t, NoReq, "raised")
       ELSE IF ~AgeAccepted(Strip(t))
       THEN /\ UNCHANGED <<state, data>>
            /\ lastEvent' = Ev(u, "reg_age", t, NoReq, "age_must_be_1_119")
       ELSE /\ data' = [data EXCEPT ![u] = UpdateData(data[u], "age", IntOf(Strip(t)))]
            /\ state' = set_state(state, u, GroupNext(RegFormStates, state[u]))
            /\ lastEvent' = Ev(u, "reg_age", t, NoReq, "ask_contact")
    /\ UNCHANGED <<users, projects, requests, nextId>>

\* dbOk: whether the storage calls of the try block succeed
reg_contact(u, t, dbOk) ==
    /\ Serving
    /\ Dispatch(state[u], t) = "reg_contact"
    /\ IF dbOk
       THEN /\ users' = set_mode(create_user(users, u, Get(data[u], "first_name"),
                                             Get(data[u], "last_name"), Strip(t)),
                                 u, "manager")
            /\ lastEvent' = Ev(u, "reg_contact", t, NoReq, "registered")
       ELSE /\ UNCHANGED users
            /\ lastEvent' = Ev(u, "reg_contact", t, NoReq, "save_error")
    /\ state' = finish_state(state, u)
    /\ data' = finish_data(data, u)
    /\ UNCHANGED <<projects, requests, nextId>>

(* ----------------------------- new request ---------------------------- *)
cmd_new_request(u, t) ==
    /\ Serving
    /\ Dispatch(state[u], t) = "cmd_new_request"
    /\ IF get_mode(users, u) \notin {"manager", "admin"}
       THEN /\ UNCHANGED state
            /\ lastEvent' = Ev(u, "cmd_new_request", t, NoReq, "manager_only")
       ELSE IF ~HasUser(users, u)
       THEN /\ UNCHANGED state
            /\ lastEvent' = Ev(u, "cmd_new_request", t, NoReq, "register_first")
       ELSE /\ state' = set_state(state, u, "RequestForm:client_name")
            /\ lastEvent' = Ev(u, "cmd_new_request", t, NoReq, "prompt")
    /\ UNCHANGED <<users, projects, requests, nextId, data>>

\* the body shared by q_client_name .. q_images:
\* state.update_data(<key>=message.text.strip()); RequestForm.next(); prompt
q_store(u, t, handler, key) ==
    /\ Serving
    /\ Dispatch(state[u], t) = handler
    /\ data' = [data EXCEPT ![u] = UpdateData(data[u], key, Strip(t))]
    /\ state' = set_state(state, u, GroupNext(RequestFormStates, state[u]))
    /\ lastEvent' = Ev(u, handler, t, NoReq, "prompt")
    /\ UNCHANGED <<users, projects, requests, nextId>>

q_client_name(u, t) == q_store(u, t, "q_client_name", "client_name")

q_client_company(u, t) == q_store(u, t, "q_client_company", "client_company")

q_client_contact(u, t) == q_store(u, t, "q_client_contact", "client_contact")

q_site_company(u, t) == q_store(u, t, "q_site_company", "site_company")

q_business_type(u, t) == q_store(u, t, "q_business_type", "business_type")

q_color_palette(u, t) == q_store(u, t, "q_color_palette", "color_palette")

q_site_contacts(u, t) == q_store(u, t, "q_site_contacts", "site_contacts")

q_short_desc(u, t) == q_store(u, t, "q_short_desc", "short_desc")

q_work_hours(u, t) == q_store(u, t, "q_work_hours", "work_hours")

q_structure(u, t) == q_store(u, t, "q_structure", "structure")

q_images(u, t) == q_store(u, t, "q_images", "images")

\* the payload q_services assembles from the FSM data and the message text
BuildPayload(d, t) ==
    [client |-> [name    |-> Get(d, "client_name"),
                 company |-> Get(d, "client_company"),
                 contact |-> Get(d, "client_contact")],
     site   |-> [company       |-> Get(d, "site_company"),
                 business_type |-> Get(d, "business_type"),
                 color_palette |-> Get(d, "color_palette"),
                 site_contacts |-> Get(d, "site_contacts"),
                 short_desc    |-> Get(d, "short_desc"),
                 work_hours    |-> Get(d, "work_hours"),
                 structure     |-> SplitStructure(IF Falsy(Get(d, "structure")) THEN <<>>
                                                  ELSE Get(d, "structure")),
                 images        |-> Get(d, "images"),
                 services      |-> parse_services(t)]]

\* create_request_by_tgid runs three statements on an autocommit connection:
\* SELECT the user, INSERT the project, INSERT the request.  `fault` is the
\* storage fault of this call: none, or an error raised by the n-th statement.
Faults == {"none", "select", "insert_project", "insert_request"}

\* fault: a project row that names no manager
ProjectRowUnowned(u, payload) ==
    [manager_id |-> "nobody", title |-> ProjectTitle(payload), status |-> "draft"]

\* INSERT INTO projects (manager_id, title, status) VALUES (user.id, title, 'draft')
ProjectRow(u, payload) == [manager_id |-> u, title |-> ProjectTitle(payload), status |-> "draft"]

\* fault: a request row inserted with the status of its project
RequestRowDraft(pid, payload) == [project_id |-> pid, payload |-> payload, status |-> "draft"]

RequestRow(pid, payload) == [project_id |-> pid, payload |-> payload, status |-> "new"]

\* whether create_request_by_tgid returns normally
CreateSucceeds(us, u, fault) == fault = "none" /\ HasUser(us, u)
\* whether the INSERT INTO projects is committed
ProjectInserted(us, u, fault) == HasUser(us, u) /\ fault \in {"none", "insert_request"}

\* fault: a request row that is kept although its INSERT raised
RequestInsertedDespiteError(us, u, fault) == ProjectInserted(us, u, fault)

\* whether the INSERT INTO requests is committed
RequestInserted(us, u, fault) == HasUser(us, u) /\ fault = "none"

q_services(u, t, fault) ==
    /\ Serving
    /\ Dispatch(state[u], t) = "q_services"
    /\ ProjectInserted(users, u, fault) => nextId < MaxRequests
    /\ LET payload == BuildPayload(data[u], t)
           pid     == nextId + 1
       IN  /\ projects' = IF ProjectInserted(users, u, fault)
                          THEN (pid :> ProjectRow(u, payload)) @@ projects ELSE projects
           /\ nextId' = IF ProjectInserted(users, u, fault) THEN pid ELSE nextId
           /\ requests' = IF RequestInserted(users, u, fault)
                          THEN (pid :> RequestRow(pid, payload)) @@ requests ELSE requests
    /\ state' = finish_state(state, u)
    /\ data' = finish_data(data, u)
    /\ lastEvent' = Ev(u, "q_services", t, NoReq,
            IF CreateSucceeds(users, u, fault) THEN "request_saved" ELSE "save_failed")
    /\ UNCHANGED users

(* ----------------------------- my requests ---------------------------- *)
per_page    == 10     \* `per_page = 10` of cmd_my_requests and cb_list_page
admin_limit == 20     \* `list_all_requests(0, 20)` of cmd_admin_requests

NAV_PREV == <<"[NAV_PREV]">>     \* label of the button to the page before
NAV_NEXT == <<"[NAV_NEXT]">>     \* label of the button to the page after

RECURSIVE NewestFirst(_)
\* ORDER BY r.created_at DESC: ids are handed out in creation order
NewestFirst(S) ==
    IF S = {} THEN <<>>
    ELSE LET m == CHOOSE x \in S : \A y \in S : y <= x
         IN  <<m>> \o NewestFirst(S \ {m})

\* LIMIT limit OFFSET offset of an ordered result
LimitOffset(rows, limit, offset) ==
    SubSeq(rows, offset + 1, IF offset + limit < Len(rows) THEN offset + limit ELSE Len(rows))

\* list_manager_requests: requests -> projects -> users of the identity
list_manager_requests(us, prj, reqs, u, offset, limit) ==
    LimitOffset(NewestFirst({r \in DOMAIN reqs : /\ RequestExists(prj, reqs, r)
                                                  /\ prj[reqs[r].project_id].manager_id = u
                                                  /\ HasUser(us, u)}),
                limit, offset)

\* list_all_requests: requests joined with their projects
list_all_requests(prj, reqs, offset, limit) ==
    LimitOffset(NewestFirst({r \in DOMAIN reqs : RequestExists(prj, reqs, r)}), limit, offset)

\* fault: a page count that drops the last, partly filled page
PagesFloor(total, per) == IF total \div per > 1 THEN total \div per ELSE 1

\* `pages = max(1, (total + per_page - 1) // per_page)`
PagesOf(total, per) ==
    IF (total + per - 1) \div per > 1 THEN (total + per - 1) \div per ELSE 1

\* `page = min(max(1, page), pages)`
ClampPage(page, pages) ==
    LET low == IF page > 1 THEN page ELSE 1
    IN  IF low < pages THEN low ELSE pages

IsAsciiDigits(s) == s # <<>> /\ \A i \in DOMAIN s : s[i] \in Range(Digits)

\* `try: page = int(...) / except ValueError: page = 1`; int() takes
\* surrounding whitespace and one leading sign
PageArg(t) ==
    LET s    == Strip(t)
        sign == s # <<>> /\ Head(s) \in {"-", "+"}
        body == IF sign THEN Tail(s) ELSE s
    IN  IF ~IsAsciiDigits(body) THEN 1
        ELSE IF sign /\ Head(s) = "-" THEN 0 - IntOf(body)
        ELSE IntOf(body)

RECURSIVE FormatInt(_)
\* a page number inside the f-string `f"{page}/{pages}"`
FormatInt(n) ==
    IF n < 10 THEN <<Digits[n + 1]>> ELSE FormatInt(n \div 10) \o <<Digits[(n % 10) + 1]>>

\* the navigation row of requests_list_inline: each button with its label
\* and the page its callback data names
NavRow(page, total, per) ==
    LET pages == PagesOf(total, per)
    IN  (IF page > 1 THEN <<[label |-> NAV_PREV, page |-> page - 1]>> ELSE <<>>)
        \o <<[label |-> FormatInt(page) \o <<"/">> \o FormatInt(pages), page |-> page]>>
        \o (IF page < pages THEN <<[label |-> NAV_NEXT, page |-> page + 1]>> ELSE <<>>)

\* an event answered with a list: the ids on its buttons, and the navigation row
EvList(u, h, t, reply, rows, nav) ==
    [user |-> u, handler |-> h, text |-> t, req |-> NoReq, reply |-> reply,
     rows |-> rows, nav |-> nav]

\* count_manager_requests: the requests whose project belongs to the user
count_manager_requests(prj, reqs, u) ==
    Cardinality({r \in DOMAIN reqs : RequestExists(prj, reqs, r)
                                      /\ prj[reqs[r].project_id].manager_id = u})

cmd_my_requests(u, t) ==
    /\ Serving
    /\ Dispatch(state[u], t) = "cmd_my_requests"
    /\ lastEvent' =
            IF get_mode(users, u) \notin {"manager", "admin"}
            THEN Ev(u, "cmd_my_requests", t, NoReq, "manager_only")
            ELSE IF ~HasUser(users, u)
            THEN Ev(u, "cmd_my_requests", t, NoReq, "register_first")
            ELSE IF count_manager_requests(projects, requests, u) = 0
            THEN Ev(u, "cmd_my_requests", t, NoReq, "no_requests_yet")
            ELSE EvList(u, "cmd_my_requests", t, "list",
                        list_manager_requests(users, projects, requests, u, 0, per_page),
                        NavRow(1, count_manager_requests(projects, requests, u), per_page))
    /\ UNCHANGED <<users, projects, requests, nextId, state, data>>

\* the callback of a navigation button; its data ends in the page asked for
cb_list_page(u, t) ==
    /\ Serving
    /\ CallbackRuns(state[u])
    /\ LET total == IF HasUser(users, u) THEN count_manager_requests(projects, requests, u)
                     ELSE 0
           pages == PagesOf(total, per_page)
           page  == ClampPage(PageArg(t), pages)
       IN  lastEvent' = EvList(u, "cb_list_page", t, "keyboard",
                               list_manager_requests(users, projects, requests, u,
                                                     (page - 1) * per_page, per_page),
                               NavRow(page, total, per_page))
    /\ UNCHANGED <<users, projects, requests, nextId, state, data>>

(* --------------------------- edit and delete -------------------------- *)
cb_delete_request(u, r) ==
    /\ Serving
    /\ CallbackRuns(state[u])
    /\ IF ~HasUser(users, u)
       THEN /\ UNCHANGED requests
            /\ lastEvent' = Ev(u, "cb_delete_request", NoText, {r}, "no_rights")
       ELSE LET own  == DeleteHits(projects, requests, r, <<u>>)
                any  == ~own /\ IsAdmin(users, u) /\ DeleteHits(projects, requests, r, NoneVal)
            IN  /\ requests' = IF own THEN delete_request(projects, requests, r, <<u>>)
                               ELSE IF IsAdmin(users, u)
                               THEN delete_request(projects, requests, r, NoneVal)
                               ELSE requests
                /\ lastEvent' = Ev(u, "cb_delete_request", NoText, {r},
                        IF own \/ any THEN "deleted" ELSE "not_deleted_maybe_no_rights")
    /\ UNCHANGED <<users, projects, nextId, state, data>>

cb_edit_field(u, r, field) ==
    /\ Serving
    /\ CallbackRuns(state[u])
    /\ IF ~RequestExists(projects, requests, r)
       THEN /\ UNCHANGED <<state, data>>
            /\ lastEvent' = Ev(u, "cb_edit_field", NoText, {r}, "not_found")
       ELSE IF ~(IsAdmin(users, u) \/ IsOwner(users, get_request(projects, requests, r), u))
       THEN /\ UNCHANGED <<state, data>>
            /\ lastEvent' = Ev(u, "cb_edit_field", NoText, {r}, "no_rights_to_edit")
       ELSE /\ data' = [data EXCEPT ![u] =
                           UpdateData(UpdateData(data[u], "edit_req_id", r), "edit_field", field)]
            /\ state' = set_state(state, u, EditFieldWaiting)
            /\ lastEvent' = Ev(u, "cb_edit_field", NoText, {r}, "ask_value")
    /\ UNCHANGED <<users, projects, requests, nextId>>

\* fault: an edit that takes only the keys the site record already has
PatchSiteKnownKeys(site, field, value) ==
    IF field \in DOMAIN site THEN (field :> value) @@ site ELSE site

\* the site record after the edit of on_edit_value
PatchSite(site, field, value) ==
    IF field = "structure" THEN ("structure" :> SplitStructure(value)) @@ site
    ELSE IF field = "services" THEN ("services" :> parse_services(value)) @@ site
    ELSE (field :> value) @@ site

\* the permission check of on_edit_value
MayEdit(us, rec, u) == IsAdmin(us, u) \/ IsOwner(us, rec, u)

\* dbOk: whether the storage calls of the handler succeed.  No statement of
\* the handler is inside a try block and the only write is its last storage
\* call, so a failing call leaves the tables and the FSM context as they were
\* and the exception leaves the handler before any answer is sent.
on_edit_value(u, t, dbOk) ==
    /\ Serving
    /\ Dispatch(state[u], t) = "on_edit_value"
    /\ LET r     == Get(data[u], "edit_req_id")
           field == Get(data[u], "edit_field")
       IN  IF ~dbOk
           THEN /\ UNCHANGED <<requests, state, data>>
                /\ lastEvent' = Ev(u, "on_edit_value", t, {r}, "raised")
           ELSE /\ IF ~RequestExists(projects, requests, r)
                   THEN /\ UNCHANGED requests
                        /\ lastEvent' = Ev(u, "on_edit_value", t, {r}, "not_found")
                   ELSE IF ~MayEdit(users, get_request(projects, requests, r), u)
                   THEN /\ UNCHANGED requests
                        /\ lastEvent' = Ev(u, "on_edit_value", t, {r}, "no_rights_to_edit")
                   ELSE /\ requests' = update_request_site_json(requests, r,
                                           PatchSite(get_request(projects, requests, r).site,
                                                     field, Strip(t)))
                        /\ lastEvent' = Ev(u, "on_edit_value", t, {r}, "saved")
                /\ state' = finish_state(state, u)
                /\ data' = finish_data(data, u)
    /\ UNCHANGED <<users, projects, nextId>>

\* on_edit_value as the database sees it.  Every storage function opens its
\* own autocommit connection, so the SELECT of get_request and the UPDATE of
\* update_request_site_json are two statements with nothing around them; a
\* handler of another user that runs at the same time (a second process of the
\* bot on the same database) has its statements ordered between them.
\* on_edit_value_select is the handler up to the UPDATE: it ends the handler
\* when the request is missing or not the sender's to edit, and else keeps the
\* record it read.
on_edit_value_select(u, t) ==
    /\ proc.phase = "polling"
    /\ ~InCall(u)
    /\ Dispatch(state[u], t) = "on_edit_value"
    /\ LET r == Get(data[u], "edit_req_id")
       IN  IF ~RequestExists(projects, requests, r)
           THEN /\ lastEvent' = Ev(u, "on_edit_value", t, {r}, "not_found")
                /\ state' = finish_state(state, u)
                /\ data' = finish_data(data, u)
                /\ UNCHANGED inflight
           ELSE IF ~MayEdit(users, get_request(projects, requests, r), u)
           THEN /\ lastEvent' = Ev(u, "on_edit_value", t, {r}, "no_rights_to_edit")
                /\ state' = finish_state(state, u)
                /\ data' = finish_data(data, u)
                /\ UNCHANGED inflight
           ELSE /\ inflight' = [inflight EXCEPT ![u] =
                                  [text |-> t, rec |-> get_request(projects, requests, r)]]
                /\ UNCHANGED <<state, data, lastEvent>>
    /\ UNCHANGED <<users, projects, requests, nextId, proc>>

\* the rest of on_edit_value: the site of the record read earlier, with the
\* one key set, goes to update_request_site_json; then finish and the answer
on_edit_value_update(u) ==
    /\ proc.phase = "polling"
    /\ InCall(u)
    /\ LET rec   == inflight[u].rec
           field == Get(data[u], "edit_field")
       IN  /\ requests' = update_request_site_json(requests, rec.id,
                               PatchSite(rec.site, field, Strip(inflight[u].text)))
           /\ lastEvent' = Ev(u, "on_edit_value", inflight[u].text, {rec.id}, "saved")
    /\ state' = finish_state(state, u)
    /\ data' = finish_data(data, u)
    /\ inflight' = [inflight EXCEPT ![u] = Idle]
    /\ UNCHANGED <<users, projects, nextId, proc>>

(* ------------------------------- export ------------------------------- *)
\* fault: an export that writes the contact where the company belongs
build_request_payload_contact(rec) ==
    [request_id |-> rec.id,
     manager_id |-> rec.manager_id,
     client     |-> [name    |-> rec.client_name,
                     company |-> rec.client_contact,
                     contact |-> rec.client_contact],
     site       |-> rec.site,
     status     |-> rec.status]

\* build_request_payload: the exported document of a record of get_request.
\* get_request hands the site over as json.dumps of the stored jsonb value and
\* this function reads it back with json.loads; the stored values are texts,
\* None, lists and dicts with text keys, which that pair returns as they were.
build_request_payload(rec) ==
    [request_id |-> rec.id,
     manager_id |-> rec.manager_id,
     client     |-> [name    |-> rec.client_name,
                     company |-> rec.client_company,
                     contact |-> rec.client_contact],
     site       |-> rec.site,
     status     |-> rec.status]

cb_export_one(u, r) ==
    /\ Serving
    /\ CallbackRuns(state[u])
    /\ lastEvent' = Ev(u, "cb_export_one", NoText, {r},
            IF ~RequestExists(projects, requests, r) THEN "not_found"
            ELSE IF ~(IsAdmin(users, u) \/ IsOwner(users, get_request(projects, requests, r), u))
                 THEN "no_rights_to_export"
            ELSE "document")
    /\ UNCHANGED <<users, projects, requests, nextId, state, data>>

(* --------------------------- site generation -------------------------- *)
\* what the POST to the webhook does: it returns a response (of any HTTP
\* status), raises a client error, or runs into the 180 s timeout
HookOutcomes == {"response", "error", "timeout"}

\* fault: a generation that asks for no right over the request
MayGenerateAnyone(us, rec, u) == TRUE

\* `is_admin or is_owner` of cb_generate_site
MayGenerate(us, rec, u) == IsAdmin(us, u) \/ IsOwner(us, rec, u)

\* cb_generate_site: posts the exported document of the request to the
\* webhook; an exception of the POST is answered with a warning
cb_generate_site(u, r, hook) ==
    /\ Serving
    /\ CallbackRuns(state[u])
    /\ lastEvent' = Ev(u, "cb_generate_site", NoText, {r},
            IF NotSet(N8N_GEN_WEBHOOK) THEN "webhook_not_set"
            ELSE IF ~RequestExists(projects, requests, r) THEN "not_found"
            ELSE IF ~MayGenerate(users, get_request(projects, requests, r), u)
                 THEN "no_rights_to_generate"
            ELSE IF hook = "response" THEN "posted"
            ELSE IF hook = "error" THEN "posted_warning_error"
            ELSE "posted_warning_timeout")
    /\ UNCHANGED <<users, projects, requests, nextId, state, data>>

(* -------------------------------- admin ------------------------------- *)
cmd_admin_login(u, t) ==
    /\ Serving
    /\ Dispatch(state[u], t) = "cmd_admin_login"
    /\ IF get_mode(users, u) = "admin"
       THEN /\ UNCHANGED state
            /\ lastEvent' = Ev(u, "cmd_admin_login", t, NoReq, "already_admin")
       ELSE /\ state' = set_state(state, u, AdminLoginPassword)
            /\ lastEvent' = Ev(u, "cmd_admin_login", t, NoReq, "ask_password")
    /\ UNCHANGED <<users, projects, requests, nextId, data>>

\* fault: a comparison of the untrimmed text
PasswordMatchesRaw(t) == t = ADMIN_PASSWORD

\* the comparison of admin_check_pass
PasswordMatches(t) == Strip(t) = ADMIN_PASSWORD

admin_check_pass(u, t) ==
    /\ Serving
    /\ Dispatch(state[u], t) = "admin_check_pass"
    /\ IF ~PasswordMatches(t)
       THEN /\ UNCHANGED users
            /\ lastEvent' = Ev(u, "admin_check_pass", t, NoReq, "wrong_password")
       ELSE /\ users' = set_mode(users, u, "admin")
            /\ lastEvent' = Ev(u, "admin_check_pass", t, NoReq, "admin_mode_on")
    /\ state' = finish_state(state, u)
    /\ data' = finish_data(data, u)
    /\ UNCHANGED <<projects, requests, nextId>>

\* fault: a logout that stores guest
LogoutRoleGuest == "guest"

\* the role cmd_logout stores for an admin
LogoutRole == "manager"

cmd_logout(u, t) ==
    /\ Serving
    /\ Dispatch(state[u], t) = "cmd_logout"
    /\ IF get_mode(users, u) # "admin"
       THEN /\ UNCHANGED users
            /\ lastEvent' = Ev(u, "cmd_logout", t, NoReq, "not_admin_mode")
       ELSE /\ users' = set_mode(users, u, LogoutRole)
            /\ lastEvent' = Ev(u, "cmd_logout", t, NoReq, "back_to_manager")
    /\ UNCHANGED <<projects, requests, nextId, state, data>>

\* fault: an admin check that passes every identity with a users row
require_admin_any_row(us, u) == HasUser(us, u)

\* require_admin: the wrapped handler runs only for the stored role admin
require_admin(us, u) == get_mode(us, u) = "admin"

cmd_admin_panel(u, t) ==
    /\ Serving
    /\ Dispatch(state[u], t) = "cmd_admin_panel"
    /\ lastEvent' = Ev(u, "cmd_admin_panel", t, NoReq,
            IF ~require_admin(users, u) THEN "access_denied" ELSE "panel")
    /\ UNCHANGED <<users, projects, requests, nextId, state, data>>

cmd_admin_users(u, t) ==
    /\ Serving
    /\ Dispatch(state[u], t) = "cmd_admin_users"
    /\ lastEvent' = Ev(u, "cmd_admin_users", t, NoReq,
            IF ~require_admin(users, u) THEN "access_denied"
            ELSE IF DOMAIN users = {} THEN "no_users_yet"
            ELSE "users_list")
    /\ UNCHANGED <<users, projects, requests, nextId, state, data>>

\* count_all_requests
count_all_requests(reqs) == Cardinality(DOMAIN reqs)

cmd_admin_requests(u, t) ==
    /\ Serving
    /\ Dispatch(state[u], t) = "cmd_admin_requests"
    /\ lastEvent' =
            IF ~require_admin(users, u)
            THEN Ev(u, "cmd_admin_requests", t, NoReq, "access_denied")
            ELSE IF count_all_requests(requests) = 0
            THEN Ev(u, "cmd_admin_requests", t, NoReq, "no_requests_yet")
            ELSE EvList(u, "cmd_admin_requests", t, "requests_list",
                        list_all_requests(projects, requests, 0, admin_limit), <<>>)
    /\ UNCHANGED <<users, projects, requests, nextId, state, data>>

\* the request named by the argument of /export_request; the ids of the
\* tables are written as numbers, the argument as the decimal text of one
ExportArg(t) == IF Len(Words(t)) = 2 THEN {IntOf(Words(t)[2])} ELSE NoReq

cmd_export_request(u, t) ==
    /\ Serving
    /\ Dispatch(state[u], t) = "cmd_export_request"
    /\ Len(Words(t)) = 2 => (IsDigitText(Words(t)[2]) /\ ~IntRaises(Words(t)[2]))
    /\ lastEvent' = Ev(u, "cmd_export_request", t, ExportArg(t),
            IF ~require_admin(users, u) THEN "access_denied"
            ELSE IF Len(Words(t)) # 2 THEN "usage"
            ELSE IF \E r \in ExportArg(t) : ~RequestExists(projects, requests, r)
                 THEN "not_found"
            ELSE "document")
    /\ UNCHANGED <<users, projects, requests, nextId, state, data>>

cmd_export_all(u, t) ==
    /\ Serving
    /\ Dispatch(state[u], t) = "cmd_export_all"
    /\ lastEvent' = Ev(u, "cmd_export_all", t, NoReq,
            IF ~require_admin(users, u) THEN "access_denied"
            ELSE IF \A r \in DOMAIN requests : ~RequestExists(projects, requests, r)
                 THEN "nothing_to_export"
            ELSE "archive")
    /\ UNCHANGED <<users, projects, requests, nextId, state, data>>

(* ------------------------------ open card ----------------------------- *)
\* format_request_card: the card text, with the client block only when
\* show_private; CardShows names the parts of the request each text holds
format_request_card(show_private) ==
    IF show_private THEN "card_with_client" ELSE "card_without_client"

CardShows ==
    [card_with_client    |-> {"id", "status", "client", "site"},
     card_without_client |-> {"id", "status", "site"}]

BULLET == "[BULLET]"      \* the bullet glyph

\* html.escape(s, quote=False)
html_escape(s) ==
    ReplaceChar(ReplaceChar(ReplaceChar(s, "&", <<"&", "a", "m", "p", ";">>),
                            "<", <<"&", "l", "t", ";">>),
                ">", <<"&", "g", "t", ";">>)

\* e(s): a dash for None, the escaped text otherwise
e(s) == IF s = NoneVal THEN <<DASH>> ELSE html_escape(s)

\* dict.get(key)
site_get(site, k) == IF k \in DOMAIN site THEN site[k] ELSE NoneVal

\* one line of services_txt
service_line(s) ==
    <<BULLET, " ">> \o e(IF "name" \in DOMAIN s THEN s["name"] ELSE <<>>)
       \o (IF ~Falsy(site_get(s, "desc")) THEN <<" ", DASH, " ">> \o e(s["desc"]) ELSE <<>>)
       \o (IF ~Falsy(site_get(s, "price")) THEN <<" ", DASH, " ">> \o e(s["price"]) ELSE <<>>)

\* `sep.join(texts) or dash`
JoinOrDash(texts, sep) == IF JoinParts(texts, sep) = <<>> THEN <<DASH>> ELSE JoinParts(texts, sep)

services_txt(site) ==
    LET services == IF Falsy(site_get(site, "services")) THEN <<>> ELSE site["services"]
    IN  JoinOrDash([i \in DOMAIN services |-> service_line(services[i])], <<"\n">>)

structure_txt(site) ==
    LET structure == IF Falsy(site_get(site, "structure")) THEN <<>> ELSE site["structure"]
    IN  JoinOrDash([i \in DOMAIN structure |-> e(structure[i])], <<",", " ">>)

\* fault: a client block that is printed for every caller
client_block_always(rec, show_private) ==
    <<e(rec.client_name), e(rec.client_company), e(rec.client_contact)>>

\* client_block of format_request_card: the three client lines, or nothing
client_block(rec, show_private) ==
    IF show_private THEN <<e(rec.client_name), e(rec.client_company), e(rec.client_contact)>>
    ELSE <<>>

\* the text format_request_card returns, line by line
CardText(rec, show_private) ==
    [id            |-> rec.id,
     status        |-> rec.status,       \* e() of a status word is the word itself
     client_block  |-> client_block(rec, show_private),
     company       |-> e(site_get(rec.site, "company")),
     business_type |-> e(site_get(rec.site, "business_type")),
     color_palette |-> e(site_get(rec.site, "color_palette")),
     site_contacts |-> e(site_get(rec.site, "site_contacts")),
     short_desc    |-> e(site_get(rec.site, "short_desc")),
     work_hours    |-> e(site_get(rec.site, "work_hours")),
     structure     |-> structure_txt(rec.site),
     images        |-> e(site_get(rec.site, "images")),
     services      |-> services_txt(rec.site)]

\* an inline button: the callback prefix it carries and the request it names
Button(cb, r) == [cb |-> cb, req |-> r]

\* request_card_inline: the rows of buttons under a card
request_card_inline(r, is_owner, is_admin) ==
    (IF is_owner \/ is_admin THEN << <<Button("edit_", {r}), Button("del_", {r})>> >> ELSE <<>>)
       \o << <<Button("exp_", {r}), Button("gen_", {r})>> >>
       \o << <<Button("back_list", NoReq)>> >>

\* what cb_open_request answers to caller u for request r over the given tables
OpenAnswer(us, prj, reqs, u, r) ==
    IF ~RequestExists(prj, reqs, r) THEN Ev(u, "cb_open_request", NoText, {r}, "not_found")
    ELSE LET rec      == get_request(prj, reqs, r)
             is_owner == IsOwner(us, rec, u)
             is_admin == IsAdmin(us, u)
         IN  [user |-> u, handler |-> "cb_open_request", text |-> NoText, req |-> {r},
              reply |-> format_request_card(is_owner \/ is_admin),
              card  |-> CardText(rec, is_owner \/ is_admin),
              kb    |-> request_card_inline(r, is_owner, is_admin)]

\* registered with state="*": runs whatever the FSM state of the user
cb_open_request(u, r) ==
    /\ Serving
    /\ lastEvent' = OpenAnswer(users, projects, requests, u, r)
    /\ UNCHANGED <<users, projects, requests, nextId, state, data>>

(* ------------------------- inputs and start state --------------------- *)
TXT_a        == <<" ", "a">>                    \* a field value with leading whitespace
TXT_edit     == <<"x", ";", " ", "y", " ">>     \* a new value for an edited field
TXT_services == <<"A", " ", DASH, " ", "b", " ", DASH, " ", "1", "0", "\n", "C", "\n", "\n">>
TXT_age_ok   == <<"0", "7">>
TXT_age_low  == <<"0">>
TXT_age_1    == <<"1">>
TXT_age_119  == <<"1", "1", "9">>
TXT_age_120  == <<"1", "2", "0", " ">>
TXT_age_sup  == <<SUP2>>
TXT_export_1 == CMD_export_request \o <<" ", "1">>
TXT_wrong    == <<"c", "h", "a", "n", "g", "e">>
TXT_company  == <<"C", "o", " ">>                \* a company name
TXT_blank    == <<" ">>                          \* an answer of whitespace only
TXT_padded   == <<" ">> \o ADMIN_PASSWORD \o <<"\n">>

FieldTexts    == {TXT_a}
AgeTexts      == {TXT_age_ok, TXT_age_low, TXT_age_1, TXT_age_119, TXT_age_120, TXT_age_sup,
                  TXT_a}
ExportTexts   == {TXT_export_1, CMD_export_request}
PasswordTexts == {ADMIN_PASSWORD, TXT_padded, TXT_wrong}
ExitInputs    == {BTN_EXIT, TXT_reset}
BackInputs    == {BTN_BACK}
EditFields    == {"structure", "extra"}

\* The FSM storage lives in memory and starts empty with the process; the
\* tables live in Postgres and hold what earlier runs of the bot left there:
\* users registered through RegForm (role manager, or admin after a login),
\* and possibly one request saved by a completed RequestForm.
RegisteredRow(role) ==
    [role |-> role, first_name |-> Strip(TXT_a), last_name |-> Strip(TXT_a),
     contact |-> Strip(TXT_a)]

IntakeKeys ==
    {"client_name", "client_company", "client_contact", "site_company", "business_type",
     "color_palette", "site_contacts", "short_desc", "work_hours", "structure", "images"}

SavedPayload == BuildPayload([k \in IntakeKeys |-> Strip(TXT_a)], TXT_services)

StartUsers ==
    UNION {[D -> {RegisteredRow("manager"), RegisteredRow("admin")}] : D \in SUBSET Users}

Init ==
    /\ users \in StartUsers
    /\ \/ /\ projects = [i \in {} |-> 0]
          /\ requests = [i \in {} |-> 0]
          /\ nextId = 0
       \/ \E o \in DOMAIN users :
             /\ projects = (1 :> ProjectRow(o, SavedPayload))
             /\ requests = (1 :> RequestRow(1, SavedPayload))
             /\ nextId = 1
    /\ state = [u \in Users |-> NoState]
    /\ data = [u \in Users |-> EmptyData]
    /\ lastEvent = Ev("nobody", "none", NoText, NoReq, "none")
    /\ proc = Polling(FullEnv)
    /\ inflight = NoCalls

\* The identity whose events a run follows.  The other identity takes part
\* through the rows and the request it left in the tables.
Senders == {"u1"}

Next ==
    \E u \in Senders :
        \/ \E t \in ExitInputs : cmd_exit_form(u, t)
        \/ \E t \in BackInputs : go_back(u, t)
        \/ cmd_start(u, CMD_start)
        \/ cmd_register(u, CMD_register)
        \/ \E t \in FieldTexts : reg_first_name(u, t)
        \/ \E t \in FieldTexts : reg_last_name(u, t)
        \/ \E t \in AgeTexts : reg_age(u, t)
        \/ \E t \in FieldTexts, dbOk \in BOOLEAN : reg_contact(u, t, dbOk)
        \/ cmd_new_request(u, BTN_NEW)
        \/ \E t \in FieldTexts : q_client_name(u, t)
        \/ \E t \in FieldTexts : q_client_company(u, t)
        \/ \E t \in FieldTexts : q_client_contact(u, t)
        \/ \E t \in FieldTexts : q_site_company(u, t)
        \/ \E t \in FieldTexts : q_business_type(u, t)
        \/ \E t \in FieldTexts : q_color_palette(u, t)
        \/ \E t \in FieldTexts : q_site_contacts(u, t)
        \/ \E t \in FieldTexts : q_short_desc(u, t)
        \/ \E t \in FieldTexts : q_work_hours(u, t)
        \/ \E t \in FieldTexts : q_structure(u, t)
        \/ \E t \in FieldTexts : q_images(u, t)
        \/ \E fault \in Faults : q_services(u, TXT_services, fault)
        \/ cmd_my_requests(u, BTN_MY)
        \/ \E r \in ReqIds : cb_delete_request(u, r)
        \/ \E r \in ReqIds : cb_export_one(u, r)
        \/ \E r \in ReqIds, hook \in HookOutcomes : cb_generate_site(u, r, hook)
        \/ \E r \in ReqIds, f \in EditFields : cb_edit_field(u, r, f)
        \/ \E dbOk \in BOOLEAN : on_edit_value(u, TXT_edit, dbOk)
        \/ cmd_admin_login(u, CMD_admin_login)
        \/ \E t \in PasswordTexts : admin_check_pass(u, t)
        \/ cmd_logout(u, BTN_LOGOUT)
        \/ cmd_admin_panel(u, BTN_PANEL)
        \/ cmd_admin_users(u, BTN_USERS)
        \/ cmd_admin_requests(u, BTN_REQS)
        \/ \E t \in ExportTexts : cmd_export_request(u, t)
        \/ cmd_export_all(u, CMD_export_all)
        \/ \E r \in ReqIds : cb_open_request(u, r)

Spec == Init /\ [][Next]_vars

(* ============================== properties ============================ *)
\* the identity that owns stored request r
OwnerOf(prj, reqs, r) == prj[reqs[r].project_id].manager_id

Handled(h) == lastEvent'.handler = h
Active(u)  == state[u] # NoState

\* everything but the record of the last event
stored == <<users, projects, requests, nextId, state, data>>

\* the key under which each non-terminal form step stores its input
StepKey ==
    [s \in (Range(RegFormStates) \cup Range(RequestFormStates))
            \ {"RegForm:contact", "RequestForm:services"} |->
        CASE s = "RegForm:first_name"         -> "first_name"
          [] s = "RegForm:last_name"          -> "last_name"
          [] s = "RegForm:age"                -> "age"
          [] s = "RequestForm:client_name"    -> "client_name"
          [] s = "RequestForm:client_company" -> "client_company"
          [] s = "RequestForm:client_contact" -> "client_contact"
          [] s = "RequestForm:site_company"   -> "site_company"
          [] s = "RequestForm:business_type"  -> "business_type"
          [] s = "RequestForm:color_palette"  -> "color_palette"
          [] s = "RequestForm:site_contacts"  -> "site_contacts"
          [] s = "RequestForm:short_desc"     -> "short_desc"
          [] s = "RequestForm:work_hours"     -> "work_hours"
          [] s = "RequestForm:structure"      -> "structure"
          [] s = "RequestForm:images"         -> "images"]

\* the form a step belongs to, as its ordered list of steps
FormOf(s) == IF IsRegState(s) THEN RegFormStates ELSE RequestFormStates

RECURSIVE IntToText(_)
\* the decimal text of a natural number
IntToText(n) == IF n < 10 THEN <<Digits[n + 1]>> ELSE IntToText(n \div 10) \o <<Digits[(n % 10) + 1]>>

(* ---- C1 ---- *)
\* C1: an exit control event received at any active step (registration,
\* request-intake, admin-password, edit-value) leaves the sender with no
\* active step and an empty buffer, and every new-request event that opens
\* the form starts at client_name with an empty buffer.
C1_ExitClearsSession ==
    [][LET u == lastEvent'.user
       IN  /\ (Handled("cmd_exit_form") /\ Active(u))
                 => (state'[u] = NoState /\ data'[u] = EmptyData)
           /\ (Handled("cmd_new_request") /\ lastEvent'.reply = "prompt")
                 => (state'[u] = "RequestForm:client_name" /\ data'[u] = EmptyData)]_vars

\* a request-intake form opened, with an empty buffer, by a manager whose row
\* has no profile: a row made by set_mode in an earlier session of this run
C1_Witness ==
    /\ lastEvent.handler = "cmd_new_request"
    /\ lastEvent.reply = "prompt"
    /\ users[lastEvent.user].first_name = NoneVal
    /\ state[lastEvent.user] = "RequestForm:client_name"
    /\ data[lastEvent.user] = EmptyData

(* ---- C2 ---- *)
\* C2: a stored request is removed, or its site payload changed, only by an
\* event whose sender owns the request or has the stored role admin when
\* the event is handled.
C2_OnlyOwnerOrAdminWrites ==
    [][\A r \in DOMAIN requests :
          (r \notin DOMAIN requests' \/ requests'[r].payload.site # requests[r].payload.site)
             => \/ OwnerOf(projects, requests, r) = lastEvent'.user
                \/ get_mode(users, lastEvent'.user) = "admin"]_vars

\* an admin who does not own the request has saved an edit of it
C2_Witness ==
    /\ lastEvent.handler = "on_edit_value"
    /\ lastEvent.reply = "saved"
    /\ \E r \in lastEvent.req :
          /\ OwnerOf(projects, requests, r) # lastEvent.user
          /\ requests[r].payload.site # SavedPayload.site

(* ---- C3 ---- *)
\* C3: a delete event for an existing request r from a sender who neither
\* owns r nor is admin is answered with a denial, and r stays stored with the
\* same owner, client, site and status.
DenialReplies == {"no_rights", "not_deleted_maybe_no_rights"}

C3_DeleteDenied ==
    [][\A r \in DOMAIN requests :
          LET u == lastEvent'.user
          IN  (/\ Handled("cb_delete_request")
               /\ lastEvent'.req = {r}
               /\ OwnerOf(projects, requests, r) # u
               /\ get_mode(users, u) # "admin")
                 => /\ lastEvent'.reply \in DenialReplies
                    /\ RequestExists(projects', requests', r)
                    /\ get_request(projects', requests', r) = get_request(projects, requests, r)]_vars

\* a manager has been denied the deletion of a request of someone else
C3_Witness ==
    /\ lastEvent.handler = "cb_delete_request"
    /\ lastEvent.reply \in DenialReplies
    /\ \E r \in lastEvent.req :
          /\ RequestExists(projects, requests, r)
          /\ OwnerOf(projects, requests, r) # lastEvent.user
          /\ get_mode(users, lastEvent.user) = "manager"

(* ---- C4 ---- *)
\* C4: a stored role becomes admin only when the admin-password step handles
\* a text whose trimmed form is the configured secret; a text the step
\* handles that does not match ends the password session and changes no
\* table; a matching text is accepted in every reachable state, whatever
\* failed attempts came before.
C4_AdminOnlyBySecret ==
    [][LET s == lastEvent'.user
       IN  /\ \A u \in Users :
                (get_mode(users', u) = "admin" /\ get_mode(users, u) # "admin")
                   => /\ Handled("admin_check_pass") /\ s = u
                      /\ state[u] = AdminLoginPassword
                      /\ Strip(lastEvent'.text) = ADMIN_PASSWORD
           /\ (Handled("admin_check_pass") /\ Strip(lastEvent'.text) # ADMIN_PASSWORD)
                 => /\ state'[s] = NoState /\ data'[s] = EmptyData
                    /\ UNCHANGED <<users, projects, requests, nextId>>
           /\ (Handled("admin_check_pass") /\ Strip(lastEvent'.text) = ADMIN_PASSWORD)
                 => lastEvent'.reply = "admin_mode_on"]_vars

\* the secret, sent with surrounding whitespace, has been accepted
C4_Witness ==
    /\ lastEvent.handler = "admin_check_pass"
    /\ lastEvent.text = TXT_padded
    /\ get_mode(users, lastEvent.user) = "admin"

(* ---- C5 ---- *)
\* C5: the correct secret in the admin-password step always stores role
\* admin; a logout event of an admin always stores role manager (the row
\* stays); a logout event of a non-admin changes nothing.
C5_RoleTransitions ==
    [][LET u == lastEvent'.user
       IN  /\ (Handled("admin_check_pass") /\ Strip(lastEvent'.text) = ADMIN_PASSWORD)
                 => get_mode(users', u) = "admin"
           /\ (Handled("cmd_logout") /\ get_mode(users, u) = "admin")
                 => (HasUser(users', u) /\ get_mode(users', u) = "manager")
           /\ (Handled("cmd_logout") /\ get_mode(users, u) # "admin")
                 => UNCHANGED stored]_vars

\* an admin has logged out and is manager
C5_Witness ==
    /\ lastEvent.handler = "cmd_logout"
    /\ lastEvent.reply = "back_to_manager"
    /\ get_mode(users, lastEvent.user) = "manager"

(* ---- C6 ---- *)
\* C6 as stated: an admin stays admin across every event other than logout.
C6_Original ==
    [][\A u \in Users :
          (get_mode(users, u) = "admin" /\ ~Handled("cmd_logout"))
             => get_mode(users', u) = "admin"]_vars

\* C6, amended: an admin stays admin across every event other than logout and
\* other than an exit control received at an active step.
C6_AdminPersists ==
    [][\A u \in Users :
          (/\ get_mode(users, u) = "admin"
           /\ ~Handled("cmd_logout")
           /\ ~(Handled("cmd_exit_form") /\ lastEvent'.user = u /\ Active(u)))
             => get_mode(users', u) = "admin"]_vars

\* an admin is still admin after /start
C6_Witness ==
    /\ lastEvent.handler = "cmd_start"
    /\ get_mode(users, lastEvent.user) = "admin"

(* ---- C7 ---- *)
\* C7: an exit control event at an active step leaves the sender's stored
\* role manager; an exit control event with no active step changes nothing.
C7_ExitSetsManager ==
    [][LET u == lastEvent'.user
       IN  /\ (Handled("cmd_exit_form") /\ Active(u))
                 => (HasUser(users', u) /\ get_mode(users', u) = "manager")
           /\ (Handled("cmd_exit_form") /\ ~Active(u)) => UNCHANGED stored]_vars

\* an identity that had no row has left a form by exit and is manager
C7_Witness ==
    /\ lastEvent.handler = "cmd_exit_form"
    /\ lastEvent.reply = "form_closed_manager_mode"
    /\ get_mode(users, lastEvent.user) = "manager"
    /\ users[lastEvent.user].contact = NoneVal

(* ---- C8 ---- *)
\* C8: a back control event at request-intake step k > 1 moves the session to
\* step k-1, at client_name it leaves the step; the buffer is unchanged.
C8_BackOneHop ==
    [][LET u == lastEvent'.user
       IN  (Handled("go_back") /\ IsRequestState(state[u]))
              => LET k == IndexOf(RequestFormStates, state[u])
                 IN  /\ state'[u] = IF k > 1 THEN RequestFormStates[k - 1] ELSE state[u]
                     /\ data' = data]_vars

\* back has moved a session with a filled buffer from services to images
C8_Witness ==
    /\ lastEvent.handler = "go_back"
    /\ lastEvent.reply = "prompt"
    /\ state[lastEvent.user] = "RequestForm:images"
    /\ "images" \in DOMAIN data[lastEvent.user]

(* ---- C9 ---- *)
\* C9 as stated: a back control event at a registration step after the
\* first moves the session to the preceding registration step.
C9_Original ==
    [][LET u == lastEvent'.user
       IN  (Handled("go_back") /\ IsRegState(state[u]) /\ state[u] # RegFormStates[1])
              => state'[u] = RegFormStates[IndexOf(RegFormStates, state[u]) - 1]]_vars

\* C9, amended: the predecessor mapping is defined for the request-intake
\* steps after the first and for no other step; a back control event at any
\* registration step leaves the step and the buffer unchanged and is answered
\* that no form is being filled.
C9_BackOnlyInIntake ==
    [][LET u == lastEvent'.user
       IN  /\ DOMAIN PREV_STATE = Range(RequestFormStates) \ {RequestFormStates[1]}
           /\ (Handled("go_back") /\ IsRegState(state[u]))
                 => /\ state'[u] = state[u]
                    /\ data' = data
                    /\ lastEvent'.reply = "not_filling_form"]_vars

\* back was sent at the registration step age, which is still the step
C9_Witness ==
    /\ lastEvent.handler = "go_back"
    /\ lastEvent.reply = "not_filling_form"
    /\ state[lastEvent.user] = "RegForm:age"

(* ---- C10 ---- *)
\* the step handler accepted the text (only the age step rejects any, or
\* raises on one)
StepAccepted == lastEvent'.reply \notin {"age_must_be_1_119", "raised"}

\* a non-terminal form step has handled a text of user u
StepHandled(u) ==
    /\ lastEvent'.user = u
    /\ state[u] \in DOMAIN StepKey
    /\ lastEvent'.handler \notin {"cmd_exit_form", "go_back", "cb_open_request"}
    /\ StepAccepted

\* the text form of a stored value
TextOfStored(key, v) == IF key = "age" THEN IntToText(v) ELSE v

\* C10 as stated: every non-terminal step stores the trimmed text under its
\* key, keeps the other keys and moves to the next step of its form.
C10_Original ==
    [][\A u \in Users :
          StepHandled(u)
             => LET key  == StepKey[state[u]]
                    form == FormOf(state[u])
                IN  /\ DOMAIN data'[u] = DOMAIN data[u] \cup {key}
                    /\ TextOfStored(key, data'[u][key]) = Strip(lastEvent'.text)
                    /\ \A k \in DOMAIN data[u] \ {key} : data'[u][k] = data[u][k]
                    /\ state'[u] = form[IndexOf(form, state[u]) + 1]]_vars

\* C10, amended: as stated, except that the age step stores the integer
\* value of the trimmed text (leading zeros are not kept).
C10_StepStoresAndAdvances ==
    [][\A u \in Users :
          StepHandled(u)
             => LET key  == StepKey[state[u]]
                    form == FormOf(state[u])
                IN  /\ DOMAIN data'[u] = DOMAIN data[u] \cup {key}
                    /\ data'[u][key] = IF key = "age" THEN IntOf(Strip(lastEvent'.text))
                                       ELSE Strip(lastEvent'.text)
                    /\ \A k \in DOMAIN data[u] \ {key} : data'[u][k] = data[u][k]
                    /\ state'[u] = form[IndexOf(form, state[u]) + 1]]_vars

\* the step work_hours was answered again after a back, with later keys buffered
C10_Witness ==
    /\ lastEvent.handler = "q_work_hours"
    /\ state[lastEvent.user] = "RequestForm:structure"
    /\ data[lastEvent.user]["work_hours"] = Strip(TXT_a)
    /\ "images" \in DOMAIN data[lastEvent.user]

(* ---- C11 ---- *)
\* C11: when the services step of the request-intake form has handled a
\* text, the sender has no active step and an empty buffer, whether the
\* request was created or the creation raised; when it raised, the stored
\* requests are what they were.
C11_ServicesStepClears ==
    [][LET u == lastEvent'.user
       IN  Handled("q_services")
              => /\ state[u] = "RequestForm:services"
                 /\ state'[u] = NoState
                 /\ data'[u] = EmptyData
                 /\ lastEvent'.reply \in {"request_saved", "save_failed"}
                 /\ lastEvent'.reply = "save_failed" => requests' = requests
                 /\ lastEvent'.reply = "request_saved"
                       => DOMAIN requests' = DOMAIN requests \cup {nextId'}]_vars

\* the second INSERT of a creation raised: the project row is stored, no
\* request row is, and the session is over
C11_Witness ==
    /\ lastEvent.handler = "q_services"
    /\ lastEvent.reply = "save_failed"
    /\ nextId \in DOMAIN projects
    /\ nextId \notin DOMAIN requests
    /\ state[lastEvent.user] = NoState
    /\ data[lastEvent.user] = EmptyData

(* ---- C12 ---- *)
\* the handlers that call the storage with a session active, and the
\* outcomes of theirs that stand for a failed storage call
SessionStorageHandlers == {"reg_contact", "q_services", "on_edit_value"}
StorageFailedReplies == {"save_error", "save_failed", "raised"}

\* C12 as stated: whenever a storage call fails while the registration
\* terminal step, the request-intake terminal step or the edit-value step
\* handles an event, the failure is caught and the sender is left with no
\* active step and an empty buffer.
C12_Original ==
    [][LET u == lastEvent'.user
       IN  (/\ lastEvent'.handler \in SessionStorageHandlers
            /\ lastEvent'.reply \in StorageFailedReplies)
              => /\ lastEvent'.reply # "raised"
                 /\ state'[u] = NoState
                 /\ data'[u] = EmptyData]_vars

(* ---- C13 ---- *)
RECURSIVE Zeros(_)
\* a run of n zero digits
Zeros(n) == IF n = 0 THEN <<>> ELSE <<"0">> \o Zeros(n - 1)

\* the decimal texts of the values 1 .. 119, leading zeros allowed
AgeTextOK(txt) ==
    \E v \in 1..119 : \E k \in 0..Len(txt) : txt = Zeros(k) \o IntToText(v)

\* C13: the age step accepts a text exactly when its trimmed form is a digit
\* string with a value v, 0 < v < 120; an accepted text moves the session to
\* the contact step, and any other text leaves the step, the buffer and the
\* tables exactly as they were, so the same holds for the next text.
C13_AgeValidation ==
    [][LET u == lastEvent'.user
       IN  Handled("reg_age")
              => /\ state[u] = "RegForm:age"
                 /\ AgeTextOK(Strip(lastEvent'.text))
                       <=> (state'[u] = "RegForm:contact" /\ "age" \in DOMAIN data'[u])
                 /\ ~AgeTextOK(Strip(lastEvent'.text))
                       => (UNCHANGED stored /\ state'[u] = "RegForm:age")]_vars

\* 120, sent with a trailing blank, was rejected: the step is still age, the
\* names are still buffered and no age is
C13_Witness ==
    /\ lastEvent.handler = "reg_age"
    /\ lastEvent.text = TXT_age_120
    /\ lastEvent.reply = "age_must_be_1_119"
    /\ state[lastEvent.user] = "RegForm:age"
    /\ DOMAIN data[lastEvent.user] = {"first_name", "last_name"}

(* ---- C14 ---- *)
\* C14 as stated: an open-request event from a guest, for any stored
\* request, is answered with a denial: the answer is no card, so it shows
\* neither client nor site data of the request.
C14_Original ==
    [][LET u == lastEvent'.user
       IN  \A r \in lastEvent'.req :
              (/\ Handled("cb_open_request")
               /\ get_mode(users, u) = "guest"
               /\ RequestExists(projects, requests, r))
                 => lastEvent'.reply \notin DOMAIN CardShows]_vars

(* ---- C15 ---- *)
\* the handlers behind require_admin
AdminHandlers ==
    {"cmd_admin_panel", "cmd_admin_users", "cmd_admin_requests", "cmd_export_request",
     "cmd_export_all"}

\* C15: the admin panel, the users list, the global request list, the
\* export-by-id command and export-all answer with something other than a
\* denial only to a sender whose stored role is admin when the event is
\* handled; a manager or a guest is answered with the denial, and the event
\* changes no table and no session.
C15_AdminOnly ==
    [][LET u == lastEvent'.user
       IN  lastEvent'.handler \in AdminHandlers
              => /\ lastEvent'.reply # "access_denied" <=> get_mode(users, u) = "admin"
                 /\ get_mode(users, u) \in {"manager", "guest"}
                       => (lastEvent'.reply = "access_denied" /\ UNCHANGED stored)]_vars

\* a manager asked for the export of a stored request of someone else by its
\* id and was denied
C15_Witness ==
    /\ lastEvent.handler = "cmd_export_request"
    /\ lastEvent.text = TXT_export_1
    /\ lastEvent.reply = "access_denied"
    /\ get_mode(users, lastEvent.user) = "manager"
    /\ \E r \in lastEvent.req :
          /\ RequestExists(projects, requests, r)
          /\ OwnerOf(projects, requests, r) # lastEvent.user

(* ---- C16 ---- *)
\* C16: every stored request has status "new" and an owner with a users row;
\* a request appears only when the services step of a request-intake session
\* handles a text, it is then owned by the sender, who at that moment has a
\* users row with role manager or admin; no event changes the status or the
\* owner of a request that stays stored.
C16_RequestsOnlyFromIntake ==
    /\ [](\A r \in DOMAIN requests :
             /\ requests[r].status = "new"
             /\ RequestExists(projects, requests, r)
             /\ HasUser(users, OwnerOf(projects, requests, r)))
    /\ [][LET u == lastEvent'.user
          IN  /\ \A r \in DOMAIN requests' \ DOMAIN requests :
                    /\ Handled("q_services")
                    /\ state[u] = "RequestForm:services"
                    /\ OwnerOf(projects', requests', r) = u
                    /\ HasUser(users, u)
                    /\ get_mode(users, u) \in {"manager", "admin"}
              /\ \A r \in DOMAIN requests' \cap DOMAIN requests :
                    /\ requests'[r].status = requests[r].status
                    /\ OwnerOf(projects', requests', r) = OwnerOf(projects, requests, r)]_vars

\* an admin has completed a request-intake session: the new request is
\* stored with status "new" and is the admin's
C16_Witness ==
    /\ lastEvent.handler = "q_services"
    /\ lastEvent.reply = "request_saved"
    /\ get_mode(users, lastEvent.user) = "admin"
    /\ nextId \in DOMAIN requests
    /\ requests[nextId].status = "new"
    /\ OwnerOf(projects, requests, nextId) = lastEvent.user

(* ===================== text functions on drawn inputs ================= *)
\* The texts a terminal step or an edit is given.  A line is up to MaxParts
\* parts joined by one separator; part i is its number or a blank.
MaxParts == 4

TextSeps == { <<"|">>, <<" ", "-", " ">>, <<"-">>, <<" ", DASH, " ">>, <<",">>, <<";", " ">> }

PartChoices(n) == [1..n -> BOOLEAN]

TextLines ==
    { JoinParts([i \in DOMAIN filled |-> IF filled[i] THEN IntToText(i) ELSE <<" ">>], sep) :
         filled \in UNION {PartChoices(n) : n \in 1..MaxParts}, sep \in TextSeps }

TXT_hero == <<"H", ";", " ", "A", ";", " ", "C">>
TXT_dup  == <<"H", ",", "A", ";", "H", ",", ",">>

\* what follows the first line of a text
TextTails == { <<>>, <<"\n", "C", "\n", "\n">>, <<"\n", "\n", "C", " ", "-", "d">> }

Texts ==
    {l \o tl : l \in TextLines, tl \in TextTails} \cup {TXT_services, TXT_edit, TXT_hero, TXT_dup}

TextFields == {"structure", "services", "company", "extra"}

TextUsers == ("u1" :> RegisteredRow("manager")) @@ ("u2" :> RegisteredRow("manager"))

\* A message of u1 waits to be handled.  Either u1 is at the services step of
\* a request-intake session whose structure answer was the same text, or u1
\* owns request 1, u2 owns request 2, and u1 is asked for the new value of
\* one site field of request 1.
InitText ==
    \E t \in Texts :
       /\ users = TextUsers
       /\ proc = Polling(FullEnv)
       /\ inflight = NoCalls
       /\ lastEvent = Ev("u1", "none", t, NoReq, "none")
       /\ \/ /\ projects = [i \in {} |-> 0]
             /\ requests = [i \in {} |-> 0]
             /\ nextId = 0
             /\ state = [u \in Users |-> IF u = "u1" THEN "RequestForm:services" ELSE NoState]
             /\ data = [u \in Users |->
                          IF u = "u1"
                          THEN [k \in IntakeKeys |->
                                  IF k = "structure" THEN Strip(t)
                                  ELSE IF k = "client_company" THEN Strip(TXT_company)
                                  ELSE IF k = "client_contact" THEN Strip(TXT_blank)
                                  ELSE Strip(TXT_a)]
                          ELSE EmptyData]
          \/ \E f \in TextFields :
                /\ projects = (1 :> ProjectRow("u1", SavedPayload))
                                 @@ (2 :> ProjectRow("u2", SavedPayload))
                /\ requests = (1 :> RequestRow(1, SavedPayload))
                                 @@ (2 :> RequestRow(2, SavedPayload))
                /\ nextId = 2
                /\ state = [u \in Users |-> IF u = "u1" THEN EditFieldWaiting ELSE NoState]
                /\ data = [u \in Users |->
                             IF u = "u1"
                             THEN UpdateData(UpdateData(EmptyData, "edit_req_id", 1),
                                             "edit_field", f)
                             ELSE EmptyData]

NextText ==
    \/ q_services("u1", lastEvent.text, "none")
    \/ on_edit_value("u1", lastEvent.text, TRUE)

SpecText == InitText /\ [][NextText]_vars

(* ------------- what the claims say the text functions return ---------- *)
RECURSIVE SortSet(_)
\* the members of a set of numbers, ascending
SortSet(S) ==
    IF S = {} THEN <<>>
    ELSE LET m == CHOOSE x \in S : \A y \in S : x <= y
         IN  <<m>> \o SortSet(S \ {m})

\* the pieces of s between the characters of C, in order
Pieces(s, C) ==
    LET cuts == SortSet({0, Len(s) + 1} \cup {i \in 1..Len(s) : s[i] \in C})
    IN  [k \in 1..(Len(cuts) - 1) |-> SubSeq(s, cuts[k] + 1, cuts[k + 1] - 1)]

\* the trimmed pieces that are not empty
TrimmedParts(s, C) ==
    LET ps == Pieces(s, C)
    IN  SelectSeq([k \in DOMAIN ps |-> Strip(ps[k])], LAMBDA p : p # <<>>)

\* the separators of a service line and of a structure text
ServiceSeps   == {"|", "-", DASH}
StructureSeps == {",", ";"}

\* the record of a line with at least one part
ExpectedItem(parts) ==
    IF Len(parts) = 1 THEN [name |-> parts[1]]
    ELSE IF Len(parts) = 2 THEN [name |-> parts[1], desc |-> parts[2]]
    ELSE [name |-> parts[1], desc |-> parts[2], price |-> parts[3]]

ExpectedServices(text) ==
    LET lines == Pieces(text, {"\n"})
        full  == SelectSeq(lines, LAMBDA l : TrimmedParts(l, ServiceSeps) # <<>>)
    IN  [k \in DOMAIN full |-> ExpectedItem(TrimmedParts(full[k], ServiceSeps))]

(* ---- C17 ---- *)
\* C17: parse_services returns one record per line that has a non-empty part
\* once "|", " - " and "-" count as the separator, in line order; the record
\* holds the first part as name, the second, if any, as desc, the third, if
\* any, as price, and nothing else; a line with no part gives no record.
\* "A — b — 10\nC\n\n" gives [{name A, desc b, price 10}, {name C}].
C17_ServiceLines ==
    [][LET u == lastEvent'.user
           t == lastEvent'.text
       IN  /\ (Handled("q_services") /\ lastEvent'.reply = "request_saved")
                 => LET got == requests'[nextId'].payload.site.services
                    IN  /\ got = ExpectedServices(t)
                        /\ t = TXT_services
                              => got = << [name |-> <<"A">>, desc |-> <<"b">>,
                                           price |-> <<"1", "0">>],
                                          [name |-> <<"C">>] >>
           /\ (/\ Handled("on_edit_value") /\ lastEvent'.reply = "saved"
               /\ Get(data[u], "edit_field") = "services")
                 => \A r \in lastEvent'.req :
                       requests'[r].payload.site.services = ExpectedServices(Strip(t))]_vars

\* a first line of four parts and, after a blank line, a line with a bare
\* hyphen were parsed by the services step: the fourth part is gone, the
\* blank line gave nothing
C17_Witness ==
    /\ lastEvent.handler = "q_services"
    /\ lastEvent.text = <<"1", "|", "2", "|", "3", "|", "4", "\n", "\n", "C", " ", "-", "d">>
    /\ nextId \in DOMAIN requests
    /\ requests[nextId].payload.site.services
          = << [name |-> <<"1">>, desc |-> <<"2">>, price |-> <<"3">>],
               [name |-> <<"C">>, desc |-> <<"d">>] >>

(* ---- C18 ---- *)
\* C18: an edit of the field structure by the owner stores the list of the
\* trimmed, non-empty segments of the text between commas and semicolons, in
\* text order, duplicates kept ("H; A; C" gives H, A, C); the services step
\* builds the structure of the new request from the buffered structure text
\* by the same rule.
C18_StructureList ==
    [][LET u == lastEvent'.user
           t == lastEvent'.text
       IN  /\ (/\ Handled("on_edit_value") /\ lastEvent'.reply = "saved"
               /\ Get(data[u], "edit_field") = "structure")
                 => \A r \in lastEvent'.req :
                       LET got == requests'[r].payload.site.structure
                       IN  /\ got = TrimmedParts(t, StructureSeps)
                           /\ t = TXT_hero => got = << <<"H">>, <<"A">>, <<"C">> >>
                           /\ t = TXT_dup => got = << <<"H">>, <<"A">>, <<"H">> >>
           /\ (Handled("q_services") /\ lastEvent'.reply = "request_saved")
                 => requests'[nextId'].payload.site.structure
                       = TrimmedParts(Get(data[u], "structure"), StructureSeps)]_vars

\* the structure of request 1 was edited with a text that names H twice and
\* ends in empty segments: both H are stored, in order, and nothing else
C18_Witness ==
    /\ lastEvent.handler = "on_edit_value"
    /\ lastEvent.reply = "saved"
    /\ lastEvent.text = TXT_dup
    /\ requests[1].payload.site.structure = << <<"H">>, <<"A">>, <<"H">> >>

(* ---- C19 ---- *)
\* the fields on_edit_value treats as lists
ListFields == {"structure", "services"}

\* C19 as stated: an edit of any other field, known or not, stores under
\* that key the text of the message as it was sent, character for character.
C19_Original ==
    [][LET u == lastEvent'.user
           field == Get(data[u], "edit_field")
       IN  (/\ Handled("on_edit_value") /\ lastEvent'.reply = "saved"
            /\ field \notin ListFields)
              => \A r \in lastEvent'.req :
                    /\ field \in DOMAIN requests'[r].payload.site
                    /\ requests'[r].payload.site[field] = lastEvent'.text]_vars

\* C19, amended: an edit of any other field, known or not, stores under that
\* key the text of the message with the whitespace at its two ends removed
\* and nothing else changed in it; the field name is not checked, and a name
\* the site record did not have becomes a new key of it.
C19_StoresTrimmed ==
    [][LET u == lastEvent'.user
           field == Get(data[u], "edit_field")
       IN  (/\ Handled("on_edit_value") /\ lastEvent'.reply = "saved"
            /\ field \notin ListFields)
              => \A r \in lastEvent'.req :
                    /\ DOMAIN requests'[r].payload.site
                          = DOMAIN requests[r].payload.site \cup {field}
                    /\ requests'[r].payload.site[field] = Strip(lastEvent'.text)]_vars

\* a field name the site record did not have was edited with a text that
\* ends in a blank: the key is there and holds the text without that blank,
\* separators untouched
C19_Witness ==
    /\ lastEvent.handler = "on_edit_value"
    /\ lastEvent.reply = "saved"
    /\ lastEvent.text = TXT_edit
    /\ "extra" \notin DOMAIN SavedPayload.site
    /\ "extra" \in DOMAIN requests[1].payload.site
    /\ requests[1].payload.site["extra"] = <<"x", ";", " ", "y">>

(* ---- C20 ---- *)
\* C20: a saved edit of one site field of request r keeps every other key of
\* r's site record with its value, adds no key but the edited one, keeps r's
\* client record, status and owner, and keeps every other request, the
\* projects and the users as they were.
C20_PatchFrame ==
    [][LET u == lastEvent'.user
           field == Get(data[u], "edit_field")
       IN  (Handled("on_edit_value") /\ lastEvent'.reply = "saved")
              => \A r \in lastEvent'.req :
                    /\ DOMAIN requests' = DOMAIN requests
                    /\ DOMAIN requests'[r].payload.site \ {field}
                          = DOMAIN requests[r].payload.site \ {field}
                    /\ \A k \in DOMAIN requests[r].payload.site \ {field} :
                          requests'[r].payload.site[k] = requests[r].payload.site[k]
                    /\ requests'[r].payload.client = requests[r].payload.client
                    /\ requests'[r].status = requests[r].status
                    /\ OwnerOf(projects', requests', r) = OwnerOf(projects, requests, r)
                    /\ \A o \in DOMAIN requests \ {r} : requests'[o] = requests[o]
                    /\ UNCHANGED <<users, projects, nextId>>]_vars

\* the company of request 1 was edited by its owner: its other site keys and
\* its client are what they were, and request 2 of the other owner is whole
C20_Witness ==
    /\ lastEvent.handler = "on_edit_value"
    /\ lastEvent.reply = "saved"
    /\ lastEvent.req = {1}
    /\ requests[1].payload.site.company = Strip(TXT_edit)
    /\ requests[1].payload.site.services = SavedPayload.site.services
    /\ requests[1].payload.client = SavedPayload.client
    /\ OwnerOf(projects, requests, 2) # lastEvent.user
    /\ requests[2] = RequestRow(2, SavedPayload)

(* ======================= the pages of a request list ================== *)
MaxTotal == 25            \* requests of one owner in the tables

TXT_page_0    == <<"0">>
TXT_page_1    == <<"1">>
TXT_page_2    == <<"2">>
TXT_page_3    == <<"3">>
TXT_page_4    == <<"4">>
TXT_page_99   == <<"9", "9">>
TXT_page_neg  == <<"-", "1">>
TXT_page_word == <<"x">>
TXT_page_frac == <<"2", ".", "5">>
TXT_page_none == <<>>
PageTexts ==
    {TXT_page_0, TXT_page_1, TXT_page_2, TXT_page_3, TXT_page_4, TXT_page_99, TXT_page_neg,
     TXT_page_word, TXT_page_frac, TXT_page_none}

\* u1 is a manager who owns the requests 1..total, u2 is an admin who may
\* own one more.  u1 presses navigation buttons, whose data names a page.
InitPage ==
    \E total \in 0..MaxTotal, other \in BOOLEAN :
       /\ users = ("u1" :> RegisteredRow("manager")) @@ ("u2" :> RegisteredRow("admin"))
       /\ projects = [i \in 1..(total + IF other THEN 1 ELSE 0) |->
                        ProjectRow(IF i <= total THEN "u1" ELSE "u2", SavedPayload)]
       /\ requests = [i \in 1..(total + IF other THEN 1 ELSE 0) |-> RequestRow(i, SavedPayload)]
       /\ nextId = total + IF other THEN 1 ELSE 0
       /\ state = [u \in Users |-> NoState]
       /\ data = [u \in Users |-> EmptyData]
       /\ lastEvent = Ev("nobody", "none", NoText, NoReq, "none")
       /\ proc = Polling(FullEnv)
       /\ inflight = NoCalls

NextPage ==
    \/ \E t \in PageTexts : cb_list_page("u1", t)
    \/ cmd_my_requests("u1", BTN_MY)
    \/ cmd_admin_requests("u2", BTN_REQS)

SpecPage == InitPage /\ [][NextPage]_vars

\* the requests of identity u, as the claim counts them
OwnedBy(u) == {r \in DOMAIN requests : OwnerOf(projects, requests, r) = u}

\* the least number of pages of `size` rows that hold `total` rows, at least 1
PageCount(total, size) ==
    CHOOSE n \in 1..(total + 1) : n * size >= total /\ (n = 1 \/ (n - 1) * size < total)

\* the page each navigation text asks for; a text that is no integer asks for 1
RequestedPage ==
    (TXT_page_0 :> 0) @@ (TXT_page_1 :> 1) @@ (TXT_page_2 :> 2) @@ (TXT_page_3 :> 3)
    @@ (TXT_page_4 :> 4) @@ (TXT_page_99 :> 99) @@ (TXT_page_neg :> (0 - 1))
    @@ (TXT_page_word :> 1) @@ (TXT_page_frac :> 1) @@ (TXT_page_none :> 1)

\* the labels of the navigation row of the last answer
NavLabels == {lastEvent.nav[i].label : i \in DOMAIN lastEvent.nav}

\* C21: a page event on the owner's list shows 10 requests a page; the page
\* count is max(1, ceil(total / 10)); the page shown is the requested one
\* clamped into [1, page count], a text that is no integer counting as 1;
\* the row has a button to the page before exactly when the page shown is
\* above 1, a button to the page after exactly when it is below the page
\* count, and the indicator "page/count" always.
C21_ListPaging ==
    [][Handled("cb_list_page") =>
          LET u      == lastEvent'.user
              total  == Cardinality(OwnedBy(u))
              count  == PageCount(total, 10)
              asked  == RequestedPage[lastEvent'.text]
              shown  == IF asked < 1 THEN 1 ELSE IF asked > count THEN count ELSE asked
              nav    == lastEvent'.nav
              labels == {nav[i].label : i \in DOMAIN nav}
              mark   == IntToText(shown) \o <<"/">> \o IntToText(count)
          IN  /\ mark \in labels
              /\ NAV_PREV \in labels <=> shown > 1
              /\ NAV_NEXT \in labels <=> shown < count
              /\ \A i \in DOMAIN nav :
                    nav[i].page = (IF nav[i].label = NAV_PREV THEN shown - 1
                                   ELSE IF nav[i].label = NAV_NEXT THEN shown + 1 ELSE shown)
              /\ Len(lastEvent'.rows) <= 10
              /\ Len(lastEvent'.rows) = (IF total - (shown - 1) * 10 < 10
                                         THEN total - (shown - 1) * 10 ELSE 10)
              /\ Range(lastEvent'.rows) \subseteq OwnedBy(u)
              /\ (total = 25 => count = 3)]_vars

\* 25 requests, page 99 asked for: page 3 of 3 is shown, with the button to
\* the page before and none to the page after
C21_Witness ==
    /\ lastEvent.handler = "cb_list_page"
    /\ lastEvent.text = TXT_page_99
    /\ Cardinality(OwnedBy("u1")) = 25
    /\ NavLabels = {NAV_PREV, <<"3", "/", "3">>}
    /\ Len(lastEvent.rows) = 5

\* C22: the admin's list of all requests shows every stored request on one
\* of the pages (of 20) the admin can ask for.  The one list an admin can
\* ask for is the answer of cmd_admin_requests.
C22_Original ==
    [][(Handled("cmd_admin_requests") /\ lastEvent'.reply = "requests_list")
          => DOMAIN requests \subseteq Range(lastEvent'.rows)]_vars

\* the site of the document exported for request r
ExportedSite(r) == build_request_payload(get_request(projects, requests, r)).site

WebhookCalled == {"posted", "posted_warning_error", "posted_warning_timeout"}

\* C24: a generate-site event leaves every user row, every project and
\* request and every session as it was, whether the webhook answers, fails
\* or times out; a failure or timeout only adds a warning to the answer; the
\* webhook is called only when the requester owns the request or is an admin.
C24_GenerateFrame ==
    [][Handled("cb_generate_site") =>
          /\ UNCHANGED <<users, projects, requests, nextId, state, data>>
          /\ lastEvent'.reply \in WebhookCalled =>
                \A r \in lastEvent'.req :
                   /\ r \in DOMAIN requests
                   /\ (OwnerOf(projects, requests, r) = lastEvent'.user
                       \/ get_mode(users, lastEvent'.user) = "admin")]_vars

\* the webhook timed out on the owner's request, and the owner, a manager
\* with no open session, and the saved request are as they were
C24_Witness ==
    /\ lastEvent.handler = "cb_generate_site"
    /\ lastEvent.reply = "posted_warning_timeout"
    /\ get_mode(users, lastEvent.user) = "manager"
    /\ requests = (1 :> RequestRow(1, SavedPayload))
    /\ state[lastEvent.user] = NoState

(* ========================= the start of the process =================== *)
\* The module body up to executor.start_polling: BOT_TOKEN and DB_URL are
\* checked with `raise SystemExit`, the other variables take their defaults.
startup ==
    /\ proc.phase = "import"
    /\ proc' = [proc EXCEPT !.phase = IF NotSet(BOT_TOKEN) \/ NotSet(DB_URL)
                                      THEN "exited" ELSE "polling"]
    /\ lastEvent' = Ev("nobody", "startup", NoText, NoReq,
            IF NotSet(BOT_TOKEN) THEN "TG_BOT_TOKEN is required"
            ELSE IF NotSet(DB_URL) THEN "No Postgres connection info"
            ELSE "Bot is running")
    /\ UNCHANGED <<users, projects, requests, nextId, state, data, inflight>>

\* the environments the process may be started in: each variable set or not
Envs ==
    [TG_BOT_TOKEN    : {NoneVal, FullEnv.TG_BOT_TOKEN},
     DB_URL          : {NoneVal, FullEnv.DB_URL},
     N8N_GEN_WEBHOOK : {NoneVal, FullEnv.N8N_GEN_WEBHOOK},
     ADMIN_PASSWORD  : {NoneVal, FullEnv.ADMIN_PASSWORD}]

TXT_changeme      == <<"c", "h", "a", "n", "g", "e", "m", "e">>
BootPasswordTexts == {FullEnv.ADMIN_PASSWORD, TXT_changeme, TXT_wrong}

\* The process is started in some environment, over the tables earlier runs
\* left and an empty FSM storage.
InitBoot ==
    /\ proc \in [phase : {"import"}, env : Envs]
    /\ inflight = NoCalls
    /\ users \in StartUsers
    /\ \/ /\ projects = [i \in {} |-> 0]
          /\ requests = [i \in {} |-> 0]
          /\ nextId = 0
       \/ \E o \in DOMAIN users :
             /\ projects = (1 :> ProjectRow(o, SavedPayload))
             /\ requests = (1 :> RequestRow(1, SavedPayload))
             /\ nextId = 1
    /\ state = [u \in Users |-> NoState]
    /\ data = [u \in Users |-> EmptyData]
    /\ lastEvent = Ev("nobody", "none", NoText, NoReq, "none")

NextBoot ==
    \/ startup
    \/ \E u \in Senders :
          \/ cmd_admin_login(u, CMD_admin_login)
          \/ \E t \in BootPasswordTexts : admin_check_pass(u, t)
          \/ cmd_logout(u, BTN_LOGOUT)
          \/ \E t \in ExitInputs : cmd_exit_form(u, t)
          \/ \E r \in ReqIds, hook \in HookOutcomes : cb_generate_site(u, r, hook)

SpecBoot == InitBoot /\ [][NextBoot]_vars

\* C25: a process whose environment lacks the bot token or the admin secret
\* never gets to handle events, and nobody is made admin by a secret that
\* was not configured.
C25_Original ==
    /\ proc.phase = "polling" =>
          /\ proc.env.TG_BOT_TOKEN # NoneVal
          /\ proc.env.ADMIN_PASSWORD # NoneVal
    /\ (lastEvent.handler = "admin_check_pass" /\ lastEvent.reply = "admin_mode_on") =>
          proc.env.ADMIN_PASSWORD # NoneVal

(* ==================== commands sent during a form step ================ *)
\* the texts of the commands and of the menu buttons, with the exit and back
\* buttons, the admin secret and a plain answer
CommandTexts ==
    {CMD_start, CMD_register, BTN_REG, CMD_new_request, BTN_NEW, CMD_my_requests, BTN_MY,
     CMD_admin_login, BTN_ADMIN_LOGIN, CMD_logout, BTN_LOGOUT, CMD_admin_panel, BTN_PANEL,
     CMD_admin_users, BTN_USERS, CMD_admin_requests, BTN_REQS, TXT_export_1, CMD_export_all}
SessionTexts == CommandTexts \cup {BTN_EXIT, BTN_BACK, FullEnv.ADMIN_PASSWORD, TXT_age_ok}

\* the FSM data of a user who has reached state s by answering TXT_a at each
\* step before it (TXT_age_ok at the age step), or by choosing field f of
\* request 1 for editing
SessionData(s, f) ==
    IF s = EditFieldWaiting
    THEN UpdateData(UpdateData(EmptyData, "edit_req_id", 1), "edit_field", f)
    ELSE IF IsRegState(s) \/ IsRequestState(s)
    THEN [k \in {StepKey[FormOf(s)[i]] : i \in 1..(IndexOf(FormOf(s), s) - 1)} |->
             IF k = "age" THEN IntOf(Strip(TXT_age_ok)) ELSE Strip(TXT_a)]
    ELSE EmptyData

\* the states u1 can be in with the row it has: RegForm is entered without a
\* row, RequestForm and EditField with one
SessionStates(us) ==
    {NoState, AdminLoginPassword}
    \cup (IF HasUser(us, "u1") THEN Range(RequestFormStates) \cup {EditFieldWaiting}
          ELSE Range(RegFormStates))

\* u1 is at some step of some form, or at none, and sends a text; whatever
\* answers, u1 sends the same text again.
InitCmd ==
    \E t \in SessionTexts :
       /\ proc = Polling(FullEnv)
       /\ inflight = NoCalls
       /\ users \in StartUsers
       /\ \E s \in SessionStates(users), f \in EditFields :
             /\ state = [u \in Users |-> IF u = "u1" THEN s ELSE NoState]
             /\ data = [u \in Users |-> IF u = "u1" THEN SessionData(s, f) ELSE EmptyData]
             /\ IF s = EditFieldWaiting
                THEN \E o \in DOMAIN users :
                        /\ get_mode(users, "u1") = "admin" \/ o = "u1"
                        /\ projects = (1 :> ProjectRow(o, SavedPayload))
                        /\ requests = (1 :> RequestRow(1, SavedPayload))
                        /\ nextId = 1
                ELSE /\ projects = [i \in {} |-> 0]
                     /\ requests = [i \in {} |-> 0]
                     /\ nextId = 0
       /\ lastEvent = Ev("u1", "none", t, NoReq, "none")

NextCmd ==
    \E u \in Senders :
        \/ cmd_exit_form(u, lastEvent.text)
        \/ go_back(u, lastEvent.text)
        \/ cmd_start(u, lastEvent.text)
        \/ cmd_register(u, lastEvent.text)
        \/ reg_first_name(u, lastEvent.text)
        \/ reg_last_name(u, lastEvent.text)
        \/ reg_age(u, lastEvent.text)
        \/ \E dbOk \in BOOLEAN : reg_contact(u, lastEvent.text, dbOk)
        \/ cmd_new_request(u, lastEvent.text)
        \/ q_client_name(u, lastEvent.text)
        \/ q_client_company(u, lastEvent.text)
        \/ q_client_contact(u, lastEvent.text)
        \/ q_site_company(u, lastEvent.text)
        \/ q_business_type(u, lastEvent.text)
        \/ q_color_palette(u, lastEvent.text)
        \/ q_site_contacts(u, lastEvent.text)
        \/ q_short_desc(u, lastEvent.text)
        \/ q_work_hours(u, lastEvent.text)
        \/ q_structure(u, lastEvent.text)
        \/ q_images(u, lastEvent.text)
        \/ \E fault \in Faults : q_services(u, lastEvent.text, fault)
        \/ cmd_my_requests(u, lastEvent.text)
        \/ \E dbOk \in BOOLEAN : on_edit_value(u, lastEvent.text, dbOk)
        \/ cmd_admin_login(u, lastEvent.text)
        \/ admin_check_pass(u, lastEvent.text)
        \/ cmd_logout(u, lastEvent.text)
        \/ cmd_admin_panel(u, lastEvent.text)
        \/ cmd_admin_users(u, lastEvent.text)
        \/ cmd_admin_requests(u, lastEvent.text)
        \/ cmd_export_request(u, lastEvent.text)
        \/ cmd_export_all(u, lastEvent.text)

SpecCmd == InitCmd /\ [][NextCmd]_vars

\* the handlers of the commands and menu buttons
CommandHandlers ==
    {"cmd_start", "cmd_register", "cmd_new_request", "cmd_my_requests", "cmd_admin_login",
     "cmd_logout"} \cup AdminHandlers

\* the handler that takes the answer of each form step
StepHandler ==
    [s \in Range(RegFormStates) \cup Range(RequestFormStates)
           \cup {AdminLoginPassword, EditFieldWaiting} |->
        CASE s = "RegForm:first_name" -> "reg_first_name"
          [] s = "RegForm:last_name"  -> "reg_last_name"
          [] s = "RegForm:age"        -> "reg_age"
          [] s = "RegForm:contact"    -> "reg_contact"
          [] s = AdminLoginPassword   -> "admin_check_pass"
          [] s = EditFieldWaiting     -> "on_edit_value"
          [] OTHER                    -> QHandler[s]]

\* an event of a user at an active step is handled by the handler of that
\* step, by back or by exit, and by no command handler
OnlyTheStepActs ==
    Active(lastEvent'.user) =>
        /\ lastEvent'.handler \in {StepHandler[state[lastEvent'.user]], "go_back", "cmd_exit_form"}
        /\ lastEvent'.handler \notin CommandHandlers

\* the stored role of the sender is another one after the event
RoleChanges == get_mode(users', lastEvent'.user) # get_mode(users, lastEvent'.user)

\* C26 as stated: while a user is at an active step no command is dispatched
\* as a command, and the user's role changes only through exit or the last
\* step of the registration.
C26_Original ==
    [][/\ OnlyTheStepActs
       /\ (Active(lastEvent'.user) /\ RoleChanges)
             => lastEvent'.handler \in {"cmd_exit_form", "reg_contact"}]_vars

\* C26: while a user is at an active step no command is dispatched as a
\* command: the step's handler, back or exit takes the text.  The user's role
\* changes during a session only through exit, the last step of the
\* registration, or the password step answered with the admin secret.
C26_CommandsWaitForTheStep ==
    [][/\ OnlyTheStepActs
       /\ (Active(lastEvent'.user) /\ RoleChanges)
             => \/ lastEvent'.handler \in {"cmd_exit_form", "reg_contact"}
                \/ /\ lastEvent'.handler = "admin_check_pass"
                   /\ Strip(lastEvent'.text) = ADMIN_PASSWORD
                   /\ get_mode(users', lastEvent'.user) = "admin"]_vars

\* the logout button pressed at the company step of the intake form was
\* stored as the client's name one step earlier, the sender is still admin
C26_Witness ==
    /\ lastEvent.handler = "q_client_company"
    /\ lastEvent.text = BTN_LOGOUT
    /\ data[lastEvent.user]["client_name"] = BTN_LOGOUT
    /\ state[lastEvent.user] = "RequestForm:client_contact"
    /\ get_mode(users, lastEvent.user) = "admin"

\* the projects no request refers to
Orphans == {p \in DOMAIN projects : \A r \in DOMAIN requests : requests[r].project_id # p}

\* C27: saving a new request writes the project and then the request, each
\* committed on its own.  When the second write fails the project stays, as
\* the sender's draft with no request, no request is added, and the session
\* is cleared all the same.  A request is never written without its project.
C27_OrphanProject ==
    [][Handled("q_services") =>
          LET u   == lastEvent'.user
              pid == nextId'
          IN  /\ (projects' # projects /\ lastEvent'.reply = "save_failed") =>
                    /\ DOMAIN projects' = DOMAIN projects \cup {pid}
                    /\ pid \notin DOMAIN projects
                    /\ projects'[pid].manager_id = u
                    /\ projects'[pid].status = "draft"
                    /\ \A p \in DOMAIN projects : projects'[p] = projects[p]
                    /\ requests' = requests
                    /\ \A r \in DOMAIN requests' : requests'[r].project_id # pid
                    /\ state'[u] = NoState
                    /\ data'[u] = EmptyData
              /\ requests' # requests =>
                    /\ projects' # projects
                    /\ lastEvent'.reply = "request_saved"
                    /\ requests'[pid].project_id = pid
                    /\ projects'[pid].manager_id = u]_vars

\* the second write failed: project 1 is stored for the sender, no request
\* refers to it, and the sender's session is gone
C27_Witness ==
    /\ lastEvent.handler = "q_services"
    /\ lastEvent.reply = "save_failed"
    /\ Orphans = {1}
    /\ projects[1].manager_id = lastEvent.user
    /\ requests = [i \in {} |-> 0]
    /\ state[lastEvent.user] = NoState
    /\ data[lastEvent.user] = EmptyData

(* ================== two users at work on the same request ============= *)
RaceFields == {"company", "extra"}

\* what each user sends as the new value
RaceText == ("u1" :> TXT_edit) @@ ("u2" :> TXT_a)

\* u1, a manager, owns request 1; u2 is an admin.  Both have the request's
\* card open, and each of them may edit a field of it or delete it.
InitRace ==
    /\ proc = Polling(FullEnv)
    /\ inflight = NoCalls
    /\ users = ("u1" :> RegisteredRow("manager")) @@ ("u2" :> RegisteredRow("admin"))
    /\ projects = (1 :> ProjectRow("u1", SavedPayload))
    /\ requests = (1 :> RequestRow(1, SavedPayload))
    /\ nextId = 1
    /\ state = [u \in Users |-> NoState]
    /\ data = [u \in Users |-> EmptyData]
    /\ lastEvent = Ev("nobody", "none", NoText, NoReq, "none")

NextRace ==
    \E u \in Users :
        \/ \E f \in RaceFields : cb_edit_field(u, 1, f)
        \/ on_edit_value_select(u, RaceText[u])
        \/ on_edit_value_update(u)
        \/ cb_delete_request(u, 1)

SpecRace == InitRace /\ [][NextRace]_vars

\* the stored site record of request r
SiteOf(reqs, r) == reqs[r].payload.site

C29_EditAfterDelete ==
    [][/\ (Handled("cb_delete_request") /\ lastEvent'.reply = "deleted") =>
             \A r \in lastEvent'.req : r \notin DOMAIN requests'
       /\ DOMAIN requests' \subseteq DOMAIN requests
       /\ \A u \in Users :
             (/\ state[u] = EditFieldWaiting
              /\ ~InCall(u)
              /\ data[u]["edit_req_id"] \notin DOMAIN requests
              /\ <<state[u], data[u], inflight[u]>>' # <<state[u], data[u], inflight[u]>>)
             => /\ lastEvent' = Ev(u, "on_edit_value", RaceText[u],
                                   {data[u]["edit_req_id"]}, "not_found")
                /\ requests' = requests
                /\ projects' = projects
                /\ state'[u] = NoState
                /\ data'[u] = EmptyData
                /\ inflight'[u] = Idle]_vars

\* u1 chose a field of request 1, the admin deleted the request, and u1's
\* value was answered "not found": the request is gone, its project is left,
\* u1 has no session
C29_Witness ==
    /\ lastEvent = Ev("u1", "on_edit_value", TXT_edit, {1}, "not_found")
    /\ 1 \notin DOMAIN requests
    /\ 1 \in DOMAIN projects
    /\ state["u1"] = NoState
    /\ data["u1"] = EmptyData
    /\ ~InCall("u1")

\* the identity has never completed the registration: it has no users row,
\* or a row without the profile the registration writes
Unregistered(us, u) == ~HasUser(us, u) \/ us[u].contact = NoneVal

\* C30: an identity that has not registered comes to role manager only by
\* the last step of the registration form; no exit from a form, no failed or
\* abandoned admin login and no login followed by logout makes it manager.
C30_Original ==
    [][\A u \in Users :
          (/\ Unregistered(users, u)
           /\ get_mode(users, u) # "manager"
           /\ get_mode(users', u) = "manager")
          => Handled("reg_contact")]_vars

(* ----------------------- sessions and their buffers ------------------- *)
\* C31: a user with no active step has an empty buffer, in every reachable
\* state; and a session that opens starts from nothing but what its own
\* opening handler wrote (the request and field of an edit), so no value of
\* an earlier form is in the buffer of a later one.
C31_NoStepNoBuffer ==
    /\ [](\A u \in Users : state[u] = NoState => data[u] = EmptyData)
    /\ [][\A u \in Users :
             (state[u] = NoState /\ state'[u] # NoState) =>
                IF state'[u] = EditFieldWaiting
                THEN DOMAIN data'[u] = {"edit_req_id", "edit_field"}
                ELSE data'[u] = EmptyData]_vars

\* the sender's edit was saved: the step and the buffer that named the
\* request and the field are both gone
C31_Witness ==
    /\ lastEvent.handler = "on_edit_value"
    /\ lastEvent.reply = "saved"
    /\ state[lastEvent.user] = NoState
    /\ data[lastEvent.user] = EmptyData

(* ------------------------- filling the request form ------------------- *)
\* The answers a manager gives while filling the form: two different values
\* for every step, so that an answer given after a step back is told from the
\* one it replaces.
FormTexts == {TXT_a, TXT_hero}

\* A registered manager who has just pressed "new request".
InitForm ==
    /\ users = TextUsers
    /\ projects = [i \in {} |-> 0]
    /\ requests = [i \in {} |-> 0]
    /\ nextId = 0
    /\ state = [u \in Users |-> IF u = "u1" THEN "RequestForm:client_name" ELSE NoState]
    /\ data = [u \in Users |-> EmptyData]
    /\ lastEvent = Ev("u1", "cmd_new_request", BTN_NEW, NoReq, "prompt")
    /\ proc = Polling(FullEnv)
    /\ inflight = NoCalls

NextForm ==
    \/ go_back("u1", BTN_BACK)
    \/ \E t \in FormTexts :
          \/ q_client_name("u1", t)
          \/ q_client_company("u1", t)
          \/ q_client_contact("u1", t)
          \/ q_site_company("u1", t)
          \/ q_business_type("u1", t)
          \/ q_color_palette("u1", t)
          \/ q_site_contacts("u1", t)
          \/ q_short_desc("u1", t)
          \/ q_work_hours("u1", t)
          \/ q_structure("u1", t)
          \/ q_images("u1", t)
    \/ q_services("u1", TXT_services, "none")

SpecForm == InitForm /\ [][NextForm]_vars

\* the keys of the steps before state s in the order of the request form
KeysBefore(s) ==
    {StepKey[RequestFormStates[i]] : i \in 1..(IndexOf(RequestFormStates, s) - 1)}

\* the buffered fields as a saved payload holds them
BufferedFields(p) ==
    [client_name    |-> p.client.name,
     client_company |-> p.client.company,
     client_contact |-> p.client.contact,
     site_company   |-> p.site.company,
     business_type  |-> p.site.business_type,
     color_palette  |-> p.site.color_palette,
     site_contacts  |-> p.site.site_contacts,
     short_desc     |-> p.site.short_desc,
     work_hours     |-> p.site.work_hours,
     structure      |-> p.site.structure,
     images         |-> p.site.images]

\* C32: at every step of the request form the buffer holds a value for each
\* step before it, whatever mix of answers and steps back led there; an
\* answer replaces the value of its own step with the trimmed text and touches
\* no other, and nothing else (a step back included) touches any; so the request saved at the last step
\* has its three client fields and eight buffered site fields defined, each
\* the latest answer of its step (the structure as the list split from it).
C32_BufferComplete ==
    /\ [](\A u \in Users :
            IsRequestState(state[u]) =>
               \A k \in KeysBefore(state[u]) : k \in DOMAIN data[u] /\ data[u][k] # NoneVal)
    /\ [][\A u \in Users :
            (IsRequestState(state[u]) /\ state'[u] # NoState) =>
               IF state'[u] = GroupNext(RequestFormStates, state[u])
               THEN /\ lastEvent'.handler = QHandler[state[u]]
                    /\ data'[u][StepKey[state[u]]] = Strip(lastEvent'.text)
                    /\ \A k \in IntakeKeys \ {StepKey[state[u]]} :
                          Get(data'[u], k) = Get(data[u], k)
               ELSE data'[u] = data[u]]_vars
    /\ [][\A r \in DOMAIN requests' \ DOMAIN requests :
            LET u == lastEvent'.user
                f == BufferedFields(requests'[r].payload)
            IN  /\ DOMAIN data[u] = IntakeKeys
                /\ \A k \in IntakeKeys :
                      /\ f[k] # NoneVal
                      /\ f[k] = IF k = "structure" THEN SplitStructure(data[u][k])
                                ELSE data[u][k]]_vars

\* the manager went as far as the images step, stepped back to the first step
\* and answered it again: the buffer has the new client name and still holds
\* the answers of the later steps
C32_Witness ==
    /\ lastEvent.handler = "q_client_name"
    /\ lastEvent.text = TXT_hero
    /\ state["u1"] = "RequestForm:client_company"
    /\ data["u1"]["client_name"] = Strip(TXT_hero)
    /\ "images" \in DOMAIN data["u1"]
    /\ data["u1"]["client_company"] = Strip(TXT_a)

(* ---------------------- opening a request of another ------------------ *)
\* the values a client field of a stored request may hold
TXT_markup == <<"<", "&">>
ClientValues == {NoneVal, <<>>, Strip(TXT_a), Strip(TXT_company), TXT_markup}
ClientRecords == [name : ClientValues, company : ClientValues, contact : ClientValues]

\* the requests table with the client sub-record of request r replaced by c
WithClient(reqs, r, c) == [reqs EXCEPT ![r].payload.client = c]

\* the callback prefixes of the buttons of a keyboard
ButtonsOf(kb) == UNION {{kb[i][j].cb : j \in DOMAIN kb[i]} : i \in DOMAIN kb}

\* C33: when a caller who is neither the owner of stored request r nor in
\* role admin opens r, the whole answer (text and buttons) is the one the
\* same caller would get from tables that differ from the present ones only
\* in the client name, company or contact of r, whatever those are; and the
\* buttons under the card include neither edit nor delete.
C33_OpenHidesClient ==
    [][\A r \in ReqIds :
          LET u == lastEvent'.user
          IN  (/\ Handled("cb_open_request")
               /\ lastEvent'.req = {r}
               /\ RequestExists(projects, requests, r)
               /\ ~IsOwner(users, get_request(projects, requests, r), u)
               /\ ~IsAdmin(users, u))
                 => /\ \A c \in ClientRecords :
                          lastEvent' = OpenAnswer(users, projects, WithClient(requests, r, c), u, r)
                    /\ ButtonsOf(lastEvent'.kb) \cap {"edit_", "del_"} = {}]_vars

\* a registered manager has opened the request of another manager, which has
\* a client name, and got the card and its buttons
C33_Witness ==
    /\ lastEvent.handler = "cb_open_request"
    /\ lastEvent.user = "u1"
    /\ lastEvent.req = {1}
    /\ RequestExists(projects, requests, 1)
    /\ HasUser(users, "u1")
    /\ get_mode(users, "u1") = "manager"
    /\ OwnerOf(projects, requests, 1) = "u2"
    /\ ~Falsy(requests[1].payload.client.name)
    /\ "card" \in DOMAIN lastEvent
    /\ lastEvent.card.client_block = <<>>
    /\ ButtonsOf(lastEvent.kb) = {"exp_", "gen_", "back_list"}

====
